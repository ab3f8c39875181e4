------------------------------ MODULE Sessions ------------------------------
(***************************************************************************)
(* Login, sessions and logout of the web admin of connect                   *)
(* (auth.server.ts, cookie.server.ts, the sessions of store.server.ts).     *)
(*                                                                         *)
(* A login is known by its `state`; Discord sends the browser back to       *)
(* /auth/callback with it and a code, an address that can be reloaded or    *)
(* opened in another browser.  The callback awaits Discord twice.           *)
(***************************************************************************)
EXTENDS Naturals, Sequences

CONSTANTS Browsers,
          StateTTL, SessionTTL,  \* 10 minutes and 7 days in the code
          MaxLogins, MaxTime     \* bounds

ASSUME SessionAssumption ==
  /\ StateTTL \in Nat \ {0} /\ SessionTTL \in Nat \ {0}
  /\ MaxLogins \in Nat /\ MaxTime \in Nat

VARIABLES time,
          begunBy,    \* begunBy[s]: the browser the login s began in
          returning,  \* logins approved at Discord: their callback's address
          spent,      \* logins whose code Discord has exchanged
          stateOf,    \* the oauth_state cookie of a browser
          cookieOf,   \* its session cookie
          calls,      \* callbacks that await Discord
          rows        \* the table sessions: [id, expiresAt]

\* What an observer remembers.
VARIABLES issued,     \* issued[i]: the login and the time of session i
          loggedOut   \* sessions whose owner has logged out

sessionVars == <<time, begunBy, returning, spent, stateOf, cookieOf, calls,
                 rows, issued, loggedOut>>

NoCookie == [value |-> 0, until |-> 0]

SessionsInit ==
  /\ time = 0
  /\ begunBy = <<>>
  /\ returning = {} /\ spent = {}
  /\ stateOf = [b \in Browsers |-> NoCookie]
  /\ cookieOf = [b \in Browsers |-> NoCookie]
  /\ calls = {}
  /\ rows = {}
  /\ issued = <<>>
  /\ loggedOut = {}

Logins == 1 .. MaxLogins
Cookies == [value : 0 .. MaxLogins, until : Nat]

SessionsTypeOK ==
  /\ time \in 0 .. MaxTime
  /\ begunBy \in Seq(Browsers) /\ Len(begunBy) <= MaxLogins
  /\ spent \subseteq returning /\ returning \subseteq DOMAIN begunBy
  /\ stateOf \in [Browsers -> Cookies] /\ cookieOf \in [Browsers -> Cookies]
  /\ calls \subseteq [by : Browsers, login : Logins,
                      stage : {"exchange", "read"}]
  /\ rows \subseteq [id : DOMAIN issued, expiresAt : Nat]
  /\ issued \in Seq([login : Logins, at : Nat])
  /\ loggedOut \subseteq DOMAIN issued

-----------------------------------------------------------------------------

\* What readCookie finds: the browser drops a cookie after its Max-Age.
Sent(cookie) == IF time < cookie.until THEN cookie.value ELSE 0

SetCookie(value, maxAge) == [value |-> value, until |-> time + maxAge]

TimePasses ==
  /\ time < MaxTime
  /\ time' = time + 1
  /\ UNCHANGED <<begunBy, returning, spent, stateOf, cookieOf, calls, rows,
                 issued, loggedOut>>

Login(b) ==
  /\ Len(begunBy) < MaxLogins
  /\ begunBy' = Append(begunBy, b)
  /\ stateOf' = [stateOf EXCEPT ![b] = SetCookie(Len(begunBy'), StateTTL)]
  /\ UNCHANGED <<time, returning, spent, cookieOf, calls, rows, issued,
                 loggedOut>>

\* The user agrees at Discord.
Approve(s) ==
  /\ s \in DOMAIN begunBy \ returning
  /\ returning' = returning \cup {s}
  /\ UNCHANGED <<time, begunBy, spent, stateOf, cookieOf, calls, rows, issued,
                 loggedOut>>

\* Faulty: any state cookie will do.
AnyState(b, s) == Sent(stateOf[b]) # 0

StateMatches(b, s) == Sent(stateOf[b]) = s

ClearState(b) == stateOf' = [stateOf EXCEPT ![b] = NoCookie]

\* handleCallback up to its first await.
Callback(b, s) ==
  /\ s \in returning
  /\ IF StateMatches(b, s)
     THEN /\ calls' = calls \cup {[by |-> b, login |-> s, stage |-> "exchange"]}
          /\ UNCHANGED stateOf
     ELSE ClearState(b) /\ UNCHANGED calls
  /\ UNCHANGED <<time, begunBy, returning, spent, cookieOf, rows, issued,
                 loggedOut>>

\* The token request: Discord takes a code once; it may fail.
Exchanged(c) ==
  /\ c.stage = "exchange"
  /\ \/ /\ c.login \notin spent
        /\ spent' = spent \cup {c.login}
        /\ calls' = (calls \ {c}) \cup {[c EXCEPT !.stage = "read"]}
        /\ UNCHANGED stateOf
     \/ /\ calls' = calls \ {c}
        /\ ClearState(c.by)
        /\ UNCHANGED spent
  /\ UNCHANGED <<time, begunBy, returning, cookieOf, rows, issued, loggedOut>>

\* Faulty: sessions in their last moments are swept too.
SweepEarly(table) == {r \in table : r.expiresAt > time + 1}

\* deleteExpiredSessions
WithoutExpired(table) == {r \in table : r.expiresAt > time}

\* User and guilds are read; the session is stored.  The answer may be lost,
\* and a browser that has left for another page may still take its cookies.
ReadAnswered(c) ==
  LET id == Len(issued) + 1 IN
  /\ c.stage = "read"
  /\ calls' = calls \ {c}
  /\ rows' = WithoutExpired(rows)
               \cup {[id |-> id, expiresAt |-> time + SessionTTL]}
  /\ issued' = Append(issued, [login |-> c.login, at |-> time])
  /\ \/ /\ ClearState(c.by)
        /\ cookieOf' = [cookieOf EXCEPT ![c.by] = SetCookie(id, SessionTTL)]
     \/ UNCHANGED <<stateOf, cookieOf>>
  /\ UNCHANGED <<time, begunBy, returning, spent, loggedOut>>

\* discordGet throws, and nothing is cleared; or the process stops.
CallLost(c) ==
  /\ calls' = calls \ {c}
  /\ UNCHANGED <<time, begunBy, returning, spent, stateOf, cookieOf, rows,
                 issued, loggedOut>>

\* POST /auth/logout from the page itself; another Origin gets a 403.
Logout(b) ==
  LET id == Sent(cookieOf[b]) IN
  /\ rows' = {r \in rows : r.id # id}
  /\ cookieOf' = [cookieOf EXCEPT ![b] = NoCookie]
  /\ loggedOut' = loggedOut \cup ({id} \ {0})
  /\ UNCHANGED <<time, begunBy, returning, spent, stateOf, calls, issued>>

\* getSession
IsAccepted(id) == \E r \in rows : r.id = id /\ r.expiresAt > time

\* currentSession
SignedInAs(b) ==
  LET id == Sent(cookieOf[b]) IN IF IsAccepted(id) THEN id ELSE 0

SessionsStep ==
  \/ TimePasses
  \/ \E b \in Browsers : \/ Login(b) \/ Logout(b)
                         \/ \E s \in Logins : Callback(b, s)
  \/ \E s \in Logins : Approve(s)
  \/ \E c \in calls : Exchanged(c) \/ ReadAnswered(c) \/ CallLost(c)

SessionsSpec == SessionsInit /\ [][SessionsStep]_sessionVars

-----------------------------------------------------------------------------
(* Correctness.                                                             *)

\* A session is good from its issue for SessionTTL or until its owner logs out,
\* whatever other logins sweep meanwhile, and at no instant longer: the query,
\* the sweep and the expiry that is stored agree on the boundary.
SessionLivesItsTerm ==
  \A i \in DOMAIN issued :
    IsAccepted(i) <=> i \notin loggedOut /\ time < issued[i].at + SessionTTL

\* The `state`: whoever is signed in in a browser agreed to a login begun in
\* this browser, although callback addresses travel and are reloaded; no login
\* yields two sessions.
OnlyOwnLogins ==
  /\ \A b \in Browsers :
       SignedInAs(b) # 0 => begunBy[issued[SignedInAs(b)].login] = b
  /\ \A i, j \in DOMAIN issued : issued[i].login = issued[j].login => i = j
=============================================================================
