--------------------------- MODULE ManagementAuth ---------------------------
(***************************************************************************)
(* monitor/server.go: login sessions of the management API.  Logins, API   *)
(* requests, logouts, the hourly cleanup and changes of the password run   *)
(* in goroutines of their own and take cfgMu before sessionMu.             *)
(*                                                                         *)
(* A request that is let through changes the settings, the password among  *)
(* them; a reload publishes whatever password its configuration has.       *)
(* ManagementProofs extends this module and SubscriptionRefresh, so that   *)
(* no definition has the name of one of that module.                       *)
(***************************************************************************)
EXTENDS Naturals, FiniteSets

CONSTANTS Password, NoPassword,  \* NoPassword: authentication is off
          Login,        \* goroutines of POST /api/auth, one token each
          Client,       \* goroutines of requests behind withAuth
          MaxSessions,  \* 1024
          TTL,          \* 24 hours, in ticks
          MaxTime,      \* bound
          MaxChanges,   \* bound: changes of the password
          None

ASSUME AuthConstants ==
  /\ NoPassword \in Password /\ MaxSessions \in Nat \ {0} /\ TTL \in Nat \ {0}
  /\ MaxTime \in Nat /\ MaxChanges \in Nat /\ None \notin Login

VARIABLES password,   \* cfg.Password
          changes,    \* how often it changed (history)
          clock,
          sessions,   \* tokens in the table; a token is the login that made it
          created,    \* CreatedAt of each token
          under,      \* the value of changes when the token was made (history)
          lpc, typed, read,  \* per login: where it is, the password it has, the one it read
          cpc, shown         \* per request: where it is, the token it shows, or None

authVars == <<password, changes, clock, sessions, created, under, lpc, typed, read, cpc, shown>>
table == <<sessions, created, under>>
logins == <<lpc, typed, read>>

AuthInit ==
  /\ password \in Password /\ changes = 0 /\ clock = 0
  /\ sessions = {} /\ created = [l \in Login |-> 0] /\ under = [l \in Login |-> 0]
  /\ lpc = [l \in Login |-> "idle"]
  /\ typed = [l \in Login |-> NoPassword] /\ read = [l \in Login |-> NoPassword]
  /\ cpc = [c \in Client |-> "idle"] /\ shown = [c \in Client |-> None]

Expired(t) == clock >= created[t] + TTL

ClockTick ==
  /\ clock < MaxTime /\ clock' = clock + 1
  /\ UNCHANGED <<password, changes, table, logins, cpc, shown>>

-----------------------------------------------------------------------------
(* handleAuth. *)

LoginAt(l, at) == lpc' = [lpc EXCEPT ![l] = at]

\* Without a password there is nothing to log in to.
Post(l) ==
  /\ lpc[l] = "idle" /\ password # NoPassword
  /\ \E p \in Password : typed' = [typed EXCEPT ![l] = p]
  /\ read' = [read EXCEPT ![l] = password] /\ LoginAt(l, "compare")
  /\ UNCHANGED <<password, changes, clock, table, cpc, shown>>

\* A wrong password is answered after a delay.
Compare(l) ==
  /\ lpc[l] = "compare" /\ LoginAt(l, IF typed[l] = read[l] THEN "mint" ELSE "refused")
  /\ UNCHANGED <<password, changes, clock, table, typed, read, cpc, shown>>

\* Under cfgMu, which is kept until the session is in the table.
Mint(l) ==
  /\ lpc[l] = "mint"
  /\ \/ password # read[l] /\ LoginAt(l, "refused") /\ UNCHANGED <<created, under>>
     \/ /\ password = read[l] /\ LoginAt(l, "insert")
        /\ created' = [created EXCEPT ![l] = clock]
        /\ under' = [under EXCEPT ![l] = changes]
  /\ UNCHANGED <<password, changes, clock, sessions, typed, read, cpc, shown>>

\* What makes room for a new session: at the limit, a session that is among the oldest.
Victims(live) ==
  IF Cardinality(live) < MaxSessions THEN {{}}
  ELSE {{t} : t \in {t \in live : \A u \in live : created[t] <= created[u]}}

\* createSession: expired sessions go first, by the time the new one was created at.
createSession(l) ==
  LET live == {t \in sessions : created[l] < created[t] + TTL}
  IN  /\ lpc[l] = "insert" /\ LoginAt(l, "loggedIn")
      /\ \E gone \in Victims(live) : sessions' = (live \ gone) \cup {l}
      /\ UNCHANGED <<password, changes, clock, created, under, typed, read, cpc, shown>>

Logout(l) ==
  /\ lpc[l] = "loggedIn" /\ LoginAt(l, "loggedOut") /\ sessions' = sessions \ {l}
  /\ UNCHANGED <<password, changes, clock, created, under, typed, read, cpc, shown>>

cleanupExpiredSessions ==
  /\ sessions' = {t \in sessions : clock <= created[t] + TTL} /\ sessions' # sessions
  /\ UNCHANGED <<password, changes, clock, created, under, logins, cpc, shown>>

-----------------------------------------------------------------------------
(* withAuth, validateSession and the requests it lets through. *)

ClientAt(c, at) == cpc' = [cpc EXCEPT ![c] = at]

\* A request shows the token of a login that was answered, or none.
Ask(c) ==
  /\ cpc[c] = "idle"
  /\ \E t \in {l \in Login : lpc[l] \in {"loggedIn", "loggedOut"}} \cup {None} :
       shown' = [shown EXCEPT ![c] = t]
  /\ ClientAt(c, IF password = NoPassword THEN "allowed" ELSE "validate")
  /\ UNCHANGED <<password, changes, clock, table, logins>>

\* The table is read under the lock, the session's expiry after it.
validateSession(c) ==
  /\ cpc[c] = "validate"
  /\ ClientAt(c, IF shown[c] \in sessions THEN "expiry" ELSE "denied")
  /\ UNCHANGED <<password, changes, clock, table, logins, shown>>

CheckExpiry(c) ==
  /\ cpc[c] = "expiry"
  /\ \/ Expired(shown[c]) /\ ClientAt(c, "denied") /\ sessions' = sessions \ {shown[c]}
     \/ ~Expired(shown[c]) /\ ClientAt(c, "allowed") /\ UNCHANGED sessions
  /\ UNCHANGED <<password, changes, clock, created, under, logins, shown>>

Answered(c) ==
  /\ cpc[c] \in {"allowed", "denied"} /\ ClientAt(c, "idle") /\ shown' = [shown EXCEPT ![c] = None]
  /\ UNCHANGED <<password, changes, clock, table, logins>>

-----------------------------------------------------------------------------
(* Changes of the password. *)

\* Seeded fault: cfgMu is released before the session is created.
cfgMuReleased == {}
\* The logins that hold cfgMu for reading.
cfgMuReaders == {l \in Login : lpc[l] = "insert"}

\* A new password revokes every session; the same one changes nothing.
setPasswordLocked(p) ==
  /\ cfgMuReaders = {}
  /\ \/ p = password /\ UNCHANGED <<password, changes, sessions>>
     \/ /\ p # password /\ changes < MaxChanges
        /\ password' = p /\ changes' = changes + 1 /\ sessions' = {}

\* handleSettings PUT: saved, then published.  A save that fails only answers.
Settings(c) ==
  /\ cpc[c] = "allowed" /\ \E p \in Password : setPasswordLocked(p)
  /\ ClientAt(c, "idle") /\ shown' = [shown EXCEPT ![c] = None]
  /\ UNCHANGED <<clock, created, under, logins>>

\* SetConfig after a reload or a rollback.
SetConfig ==
  /\ \E p \in Password \ {password} : setPasswordLocked(p)
  /\ UNCHANGED <<clock, created, under, logins, cpc, shown>>

-----------------------------------------------------------------------------
AuthNext ==
  \/ ClockTick \/ cleanupExpiredSessions \/ SetConfig
  \/ \E l \in Login : Post(l) \/ Compare(l) \/ Mint(l) \/ createSession(l) \/ Logout(l)
  \/ \E c \in Client : \/ Ask(c) \/ validateSession(c) \/ CheckExpiry(c) \/ Answered(c)
                       \/ Settings(c)

AuthSpec == AuthInit /\ [][AuthNext]_authVars

AuthTypeOK ==
  /\ password \in Password /\ changes \in 0..MaxChanges /\ clock \in 0..MaxTime
  /\ sessions \subseteq Login /\ created \in [Login -> 0..MaxTime] /\ under \in [Login -> 0..MaxChanges]
  /\ lpc \in [Login -> {"idle", "compare", "refused", "mint", "insert", "loggedIn", "loggedOut"}]
  /\ typed \in [Login -> Password] /\ read \in [Login -> Password]
  /\ cpc \in [Client -> {"idle", "validate", "expiry", "allowed", "denied"}]
  /\ shown \in [Client -> Login \cup {None}]

\* Every session in the table was made under the password that is in force, so that a new
\* password ends them all, also one whose login was being answered when it changed
\* (handleAuth: "Do not mint a session for an old password after a concurrent password
\* rotation"); a token that was logged out is not in it, nor more tokens than the limit.
SessionsCurrent ==
  /\ AuthTypeOK
  /\ \A t \in sessions : under[t] = changes /\ lpc[t] = "loggedIn"
  /\ Cardinality(sessions) <= MaxSessions

\* A session that has not expired is lost only with the password, by its own logout, or to
\* a login at the limit when no session is older (createSession).
SessionKept ==
  \A t \in sessions \ sessions' :
    \/ Expired(t) \/ changes' # changes \/ lpc'[t] = "loggedOut"
    \/ /\ Cardinality(sessions') = MaxSessions
       /\ \A u \in sessions : Expired(u) \/ created[t] <= created[u]

\* The table of login sessions is sound from the first state on, and no step makes it
\* unsound or loses a session without a reason (createSession, setPasswordLocked).
AuthSound == SessionsCurrent /\ [][SessionsCurrent' /\ SessionKept]_authVars

=============================================================================
