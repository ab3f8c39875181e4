------------------------- MODULE ConnectAdminProofs -------------------------
(***************************************************************************)
(* Proofs about the web admin of connect and the role synchronisation       *)
(* behind it, for any members, roles, browsers, guilds, times and bounds.   *)
(***************************************************************************)
EXTENDS MCConnectAdmin, QueueLemmas

-----------------------------------------------------------------------------
(* Sessions.  A login's state is followed from the browser it began in       *)
(* through the callbacks to the session.                                    *)

\* Whatever a browser or a callback holds was begun in this browser.
OwnLogins ==
  /\ \A b \in Browsers : stateOf[b].value # 0 =>
       /\ stateOf[b].value \in DOMAIN begunBy
       /\ begunBy[stateOf[b].value] = b
  /\ \A b \in Browsers : cookieOf[b].value # 0 =>
       /\ cookieOf[b].value \in DOMAIN issued
       /\ begunBy[issued[cookieOf[b].value].login] = b
  /\ \A c \in calls : c.login \in returning /\ begunBy[c.login] = c.by

\* Discord takes a code once, so that a login has one callback that goes on, or
\* one session.
OncePerLogin ==
  /\ \A i \in DOMAIN issued : issued[i].login \in spent
  /\ \A i, j \in DOMAIN issued : issued[i].login = issued[j].login => i = j
  /\ \A c \in calls : c.stage = "read" =>
       c.login \in spent /\ \A i \in DOMAIN issued : issued[i].login # c.login
  /\ \A c, d \in calls : c.stage = "read" /\ d.stage = "read" /\ c.login = d.login
       => c = d

\* The table has the sessions that were not ended and have not expired, and
\* perhaps some that have.
TableIsCurrent ==
  /\ \A r \in rows : r.id \notin loggedOut /\ r.expiresAt = issued[r.id].at + SessionTTL
  /\ \A i \in DOMAIN issued \ loggedOut :
       time < issued[i].at + SessionTTL => \E r \in rows : r.id = i

LoginInv == SessionsTypeOK /\ OwnLogins /\ OncePerLogin /\ TableIsCurrent

\* Numbers and sequences of the sessions.
LEMMA SessionSets ==
  ASSUME SessionsTypeOK
  PROVE  /\ time \in Nat /\ StateTTL \in Nat /\ SessionTTL \in Nat /\ SessionTTL > 0
         /\ MaxLogins \in Nat /\ MaxTime \in Nat
         /\ begunBy \in Seq(Browsers) /\ Len(begunBy) \in Nat
         /\ DOMAIN begunBy = 1 .. Len(begunBy) /\ DOMAIN begunBy \subseteq Logins
         /\ Len(issued) \in Nat /\ DOMAIN issued = 1 .. Len(issued)
         /\ \A i \in DOMAIN issued : issued[i].login \in Logins /\ issued[i].at \in Nat
         /\ \A c \in calls : /\ c.by \in Browsers /\ c.login \in Logins
                             /\ c.stage \in {"exchange", "read"}
         /\ \A r \in rows : r.id \in DOMAIN issued /\ r.expiresAt \in Nat
<1>1. /\ time \in Nat /\ StateTTL \in Nat /\ SessionTTL \in Nat /\ SessionTTL > 0
      /\ MaxLogins \in Nat /\ MaxTime \in Nat
  BY SessionAssumption DEF SessionsTypeOK
<1>2. begunBy \in Seq(Browsers) /\ Len(begunBy) <= MaxLogins
  BY DEF SessionsTypeOK
<1>3. Len(begunBy) \in Nat /\ DOMAIN begunBy = 1 .. Len(begunBy)
  BY <1>2, LenProperties
<1>4. DOMAIN begunBy \subseteq Logins
  BY <1>1, <1>2, <1>3 DEF Logins
<1>5. issued \in Seq([login : Logins, at : Nat])
  BY DEF SessionsTypeOK
<1>6. Len(issued) \in Nat /\ DOMAIN issued = 1 .. Len(issued)
  BY <1>5, LenProperties
<1>7. \A i \in DOMAIN issued : issued[i] \in [login : Logins, at : Nat]
  BY <1>5, <1>6, ElementOfSeq
<1>8. \A c \in calls : /\ c.by \in Browsers /\ c.login \in Logins
                       /\ c.stage \in {"exchange", "read"}
  BY DEF SessionsTypeOK
<1>9. \A r \in rows : r.id \in DOMAIN issued /\ r.expiresAt \in Nat
  BY DEF SessionsTypeOK
<1>. QED  BY <1>1, <1>2, <1>3, <1>4, <1>6, <1>7, <1>8, <1>9

\* Logins are few, and so are the sessions: each has a login of its own.
LEMMA LoginsOfTheirOwn ==
  ASSUME NEW s, Len(s) \in Nat, MaxLogins \in Nat, DOMAIN s = 1 .. Len(s),
         \A i \in DOMAIN s : s[i].login \in 1 .. MaxLogins,
         \A i, j \in DOMAIN s : s[i].login = s[j].login => i = j
  PROVE  Len(s) <= MaxLogins
<1>. DEFINE S == 1 .. Len(s)
            T == 1 .. MaxLogins
            f == [i \in 1 .. Len(s) |-> s[i].login]
<1>1. IsFiniteSet(S) /\ Cardinality(S) = Len(s) /\ IsFiniteSet(T) /\ Cardinality(T) = MaxLogins
  <2>1. \A n \in Nat : IsFiniteSet(1 .. n) /\ Cardinality(1 .. n) = n
    BY SMTT(30), FS_Interval
  <2>. QED  BY <2>1
<1>2. f \in [S -> T] /\ \A i, j \in S : f[i] = f[j] => i = j
  OBVIOUS
<1>. HIDE DEF f
<1>3. ASSUME MaxLogins < Len(s) PROVE FALSE
  <2>1. IsFiniteSet(S) /\ IsFiniteSet(T) /\ Cardinality(T) < Cardinality(S) /\ f \in [S -> T]
    BY <1>1, <1>2, <1>3
  <2>. HIDE DEF S, T
  <2>2. \E x, y \in S : x # y /\ f[x] = f[y]
    BY ONLY <2>1, FS_PigeonHole
  <2>. QED  BY <1>2, <2>2
<1>. QED  BY <1>3

\* A cookie that is read is the one that was set, or none.
LEMMA SentIsSet ==
  ASSUME NEW c
  PROVE  Sent(c) # 0 => Sent(c) = c.value
BY DEF Sent

\* Cookies with a value in range.
LEMMA CookieTypes ==
  ASSUME SessionsTypeOK, NEW v \in 0 .. MaxLogins, NEW age \in Nat
  PROVE  /\ SetCookie(v, age) \in Cookies /\ SetCookie(v, age).value = v
         /\ NoCookie \in Cookies /\ NoCookie.value = 0
<1>1. time + age \in Nat /\ 0 \in 0 .. MaxLogins
  BY SessionSets
<1>. QED  BY <1>1 DEF SetCookie, Cookies, NoCookie

\* Time passes: sessions expire in the table as they do on paper.
LEMMA TimeKeepsLogins ==
  ASSUME LoginInv, TimePasses \/ UNCHANGED sessionVars
  PROVE  LoginInv'
<1>. USE SessionSets DEF LoginInv
<1>1. UNCHANGED <<begunBy, returning, spent, stateOf, cookieOf, calls, rows, issued, loggedOut>>
  BY DEF TimePasses, sessionVars
<1>2. time' \in 0 .. MaxTime /\ time <= time' /\ time' \in Nat
  BY SMTT(30) DEF TimePasses, sessionVars, SessionsTypeOK
<1>3. SessionsTypeOK'
  BY <1>1, <1>2 DEF SessionsTypeOK
<1>4. OwnLogins' /\ OncePerLogin'
  BY <1>1 DEF OwnLogins, OncePerLogin
<1>5. TableIsCurrent'
  <2>1. \A i \in DOMAIN issued : time' < issued[i].at + SessionTTL => time < issued[i].at + SessionTTL
    BY <1>2
  <2>. QED  BY <1>1, <2>1 DEF TableIsCurrent
<1>. QED  BY <1>3, <1>4, <1>5

\* A login begins.
LEMMA LoginBegins ==
  ASSUME LoginInv, NEW b \in Browsers, Login(b)
  PROVE  LoginInv'
<1>. USE DEF LoginInv
<1>. DEFINE n == Len(begunBy) + 1
<1>1. /\ UNCHANGED <<time, returning, spent, cookieOf, calls, rows, issued, loggedOut>>
      /\ begunBy' = Append(begunBy, b)
      /\ stateOf' = [stateOf EXCEPT ![b] = SetCookie(Len(begunBy'), StateTTL)]
      /\ Len(begunBy) < MaxLogins
  BY DEF Login
<1>2. /\ begunBy' \in Seq(Browsers) /\ Len(begunBy') = n /\ DOMAIN begunBy' = 1 .. n
      /\ \A s \in DOMAIN begunBy : s \in DOMAIN begunBy' /\ begunBy'[s] = begunBy[s]
      /\ begunBy'[n] = b /\ n \in DOMAIN begunBy' /\ n \in 0 .. MaxLogins
  <2>1. begunBy \in Seq(Browsers) /\ Len(begunBy) \in Nat /\ DOMAIN begunBy = 1 .. Len(begunBy)
    BY SessionSets
  <2>2. /\ begunBy' \in Seq(Browsers) /\ Len(begunBy') = n
        /\ \A s \in 1 .. Len(begunBy) : begunBy'[s] = begunBy[s]
        /\ begunBy'[n] = b
    BY <1>1, <2>1, AppendProperties
  <2>3. DOMAIN begunBy' = 1 .. n
    BY <2>2, LenProperties
  <2>4. MaxLogins \in Nat
    BY SessionSets
  <2>5. n \in 1 .. n /\ n \in 0 .. MaxLogins /\ \A s \in 1 .. Len(begunBy) : s \in 1 .. n
    BY <1>1, <2>1, <2>4
  <2>. QED  BY <2>1, <2>2, <2>3, <2>5
<1>. HIDE DEF n
<1>3. /\ SetCookie(n, StateTTL) \in Cookies /\ SetCookie(n, StateTTL).value = n
  BY <1>2, SessionSets, CookieTypes
<1>4. stateOf' = [stateOf EXCEPT ![b] = SetCookie(n, StateTTL)] /\ stateOf \in [Browsers -> Cookies]
  BY <1>1, <1>2 DEF SessionsTypeOK
<1>5. Len(begunBy') <= MaxLogins
  BY <1>2, SessionSets
<1>6. SessionsTypeOK'
  BY <1>1, <1>2, <1>3, <1>4, <1>5 DEF SessionsTypeOK
<1>7. OwnLogins'
  <2>1. \A a \in Browsers : stateOf'[a].value # 0 =>
          stateOf'[a].value \in DOMAIN begunBy' /\ begunBy'[stateOf'[a].value] = a
    BY <1>2, <1>3, <1>4 DEF OwnLogins
  <2>2. \A c \in calls : c.login \in DOMAIN begunBy
    BY DEF OwnLogins, SessionsTypeOK
  <2>3. \A i \in DOMAIN issued : issued[i].login \in DOMAIN begunBy
    BY DEF OncePerLogin, SessionsTypeOK
  <2>. QED  BY <1>1, <1>2, <2>1, <2>2, <2>3 DEF OwnLogins
<1>8. OncePerLogin' /\ TableIsCurrent'
  BY <1>1 DEF OncePerLogin, TableIsCurrent
<1>. QED  BY <1>6, <1>7, <1>8

\* A login is approved, or a callback begins or goes wrong.
LEMMA CallbackKeepsLogins ==
  ASSUME LoginInv,
         \/ \E s \in Logins : Approve(s)
         \/ \E b \in Browsers, s \in Logins : Callback(b, s)
         \/ \E c \in calls : Exchanged(c) \/ CallLost(c)
  PROVE  LoginInv'
<1>. USE DEF LoginInv
<1>0. /\ UNCHANGED <<time, begunBy, cookieOf, rows, issued, loggedOut>>
      /\ returning \subseteq returning' /\ spent \subseteq spent'
  BY DEF Approve, Callback, Exchanged, CallLost
<1>1. /\ stateOf' \in [Browsers -> Cookies]
      /\ \A b \in Browsers : stateOf'[b] = stateOf[b] \/ stateOf'[b].value = 0
  <2>1. \/ UNCHANGED stateOf
        \/ \E b : stateOf' = [stateOf EXCEPT ![b] = NoCookie]
    BY DEF Approve, Callback, Exchanged, CallLost, ClearState
  <2>2. NoCookie \in Cookies /\ NoCookie.value = 0
    <3>1. 0 \in 0 .. MaxLogins /\ 0 \in Nat
      BY SessionSets
    <3>. QED  BY <3>1, CookieTypes
  <2>3. stateOf \in [Browsers -> Cookies]
    BY DEF SessionsTypeOK
  <2>. QED  BY <2>1, <2>2, <2>3
<1>. DEFINE Call == [by : Browsers, login : Logins, stage : {"exchange", "read"}]
           CallsOK(cs, sp, rt) ==
             /\ cs \subseteq Call
             /\ sp \subseteq rt /\ rt \subseteq DOMAIN begunBy
             /\ \A c \in cs : c.login \in rt /\ begunBy[c.login] = c.by
             /\ \A c \in cs : c.stage = "read" =>
                  c.login \in sp /\ \A i \in DOMAIN issued : issued[i].login # c.login
             /\ \A c, d \in cs :
                  c.stage = "read" /\ d.stage = "read" /\ c.login = d.login => c = d
<1>2. CallsOK(calls', spent', returning')
  <2>0. CallsOK(calls, spent, returning)
    BY DEF SessionsTypeOK, OwnLogins, OncePerLogin
  <2>1. ASSUME NEW s \in Logins, Approve(s)
        PROVE  /\ calls' = calls /\ spent' = spent /\ returning' = returning \cup {s}
               /\ s \in DOMAIN begunBy
    BY <2>1 DEF Approve
  <2>2. ASSUME NEW c \in calls, CallLost(c)
        PROVE  calls' = calls \ {c} /\ UNCHANGED <<spent, returning>>
    BY <2>2 DEF CallLost
  <2>3. ASSUME NEW b \in Browsers, NEW s \in Logins, Callback(b, s)
        PROVE  /\ UNCHANGED <<spent, returning>>
               /\ \/ calls' = calls
                  \/ /\ calls' = calls \cup {[by |-> b, login |-> s, stage |-> "exchange"]}
                     /\ begunBy[s] = b /\ s \in returning
    <3>1. CASE StateMatches(b, s)
      <4>1. s # 0
        BY SessionSets DEF Logins
      <4>2. stateOf[b].value = s
        BY <3>1, <4>1, SentIsSet DEF StateMatches
      <4>3. begunBy[s] = b
        BY <4>1, <4>2 DEF OwnLogins
      <4>. QED  BY <2>3, <3>1, <4>3 DEF Callback
    <3>. QED  BY <2>3, <3>1 DEF Callback
  <2>4. ASSUME NEW c \in calls, Exchanged(c)
        PROVE  /\ returning' = returning
               /\ \/ calls' = calls \ {c} /\ spent' = spent
                  \/ /\ calls' = (calls \ {c}) \cup {[c EXCEPT !.stage = "read"]}
                     /\ c.login \notin spent /\ spent' = spent \cup {c.login}
    BY <2>4 DEF Exchanged
  <2>5. ASSUME NEW c \in calls,
               calls' = (calls \ {c}) \cup {[c EXCEPT !.stage = "read"]},
               c.login \notin spent, spent' = spent \cup {c.login}, returning' = returning
        PROVE  CallsOK(calls', spent', returning')
    <3>. DEFINE d == [c EXCEPT !.stage = "read"]
    <3>1. d \in Call /\ d.login = c.login /\ d.by = c.by /\ d.stage = "read"
      BY ONLY <2>0
    <3>2. \A i \in DOMAIN issued : issued[i].login # c.login
      BY <2>5 DEF OncePerLogin
    <3>3. c.login \in returning
      BY <2>0
    <3>. HIDE DEF d
    <3>4. calls' = (calls \ {c}) \cup {d}
      BY <2>5 DEF d
    <3>. QED  BY ONLY <2>0, <2>5, <3>1, <3>2, <3>3, <3>4
  <2>. QED  BY <2>0, <2>1, <2>2, <2>3, <2>4, <2>5
<1>3. SessionsTypeOK'
  BY <1>0, <1>1, <1>2 DEF SessionsTypeOK
<1>4. OwnLogins'
  BY <1>0, <1>1, <1>2 DEF OwnLogins
<1>5. OncePerLogin'
  BY <1>0, <1>2 DEF OncePerLogin
<1>6. TableIsCurrent'
  BY <1>0 DEF TableIsCurrent
<1>. QED  BY <1>3, <1>4, <1>5, <1>6


\* A session is stored: the first of its login.
LEMMA SessionIsIssued ==
  ASSUME LoginInv, NEW c \in calls, ReadAnswered(c)
  PROVE  LoginInv'
<1>. USE DEF LoginInv
<1>. DEFINE id == Len(issued) + 1
            new == [login |-> c.login, at |-> time]
            row == [id |-> id, expiresAt |-> time + SessionTTL]
<1>1. /\ UNCHANGED <<time, begunBy, returning, spent, loggedOut>>
      /\ calls' = calls \ {c} /\ c.stage = "read"
      /\ rows' = WithoutExpired(rows) \cup {row}
      /\ issued' = Append(issued, new)
      /\ \/ /\ stateOf' = [stateOf EXCEPT ![c.by] = NoCookie]
            /\ cookieOf' = [cookieOf EXCEPT ![c.by] = SetCookie(id, SessionTTL)]
         \/ UNCHANGED <<stateOf, cookieOf>>
  BY DEF ReadAnswered, ClearState
<1>2. /\ c.by \in Browsers /\ c.login \in Logins /\ time \in Nat /\ SessionTTL \in Nat
      /\ SessionTTL > 0
      /\ c.login \in spent /\ begunBy[c.login] = c.by /\ c.login \in DOMAIN begunBy
  BY <1>1, SessionSets DEF OwnLogins, OncePerLogin, SessionsTypeOK
<1>3. /\ issued' \in Seq([login : Logins, at : Nat])
      /\ DOMAIN issued' = DOMAIN issued \cup {id} /\ id \notin DOMAIN issued /\ id # 0
      /\ \A i \in DOMAIN issued : issued'[i] = issued[i]
      /\ issued'[id] = new /\ Len(issued') = id /\ id \in Nat
  <2>1. /\ issued \in Seq([login : Logins, at : Nat]) /\ Len(issued) \in Nat
        /\ DOMAIN issued = 1 .. Len(issued)
    BY SessionSets DEF SessionsTypeOK
  <2>2. new \in [login : Logins, at : Nat]
    BY <1>2
  <2>. HIDE DEF new
  <2>3. /\ issued' \in Seq([login : Logins, at : Nat]) /\ Len(issued') = Len(issued) + 1
        /\ \A i \in 1 .. Len(issued) : issued'[i] = issued[i]
        /\ issued'[Len(issued) + 1] = new
    BY <1>1, <2>1, <2>2, AppendProperties
  <2>4. DOMAIN issued' = 1 .. id
    BY <2>3, LenProperties
  <2>5. 1 .. id = 1 .. Len(issued) \cup {id} /\ id \notin 1 .. Len(issued) /\ id # 0 /\ id \in Nat
    BY <2>1
  <2>. QED  BY <2>1, <2>3, <2>4, <2>5
<1>4. row.id = id /\ row.expiresAt = time + SessionTTL /\ new.login = c.login /\ new.at = time
  OBVIOUS
<1>. HIDE DEF id, new, row
<1>5. \A i \in DOMAIN issued : issued[i].login \in spent /\ issued[i].login # c.login
  BY <1>1 DEF OncePerLogin
<1>6. OncePerLogin'
  <2>1. \A i \in DOMAIN issued' : issued'[i].login \in spent
    BY <1>2, <1>3, <1>4, <1>5
  <2>2. \A i, j \in DOMAIN issued' : issued'[i].login = issued'[j].login => i = j
    BY <1>3, <1>4, <1>5 DEF OncePerLogin
  <2>3. \A d \in calls' : d.stage = "read" =>
          d.login \in spent /\ \A i \in DOMAIN issued' : issued'[i].login # d.login
    BY <1>1, <1>3, <1>4 DEF OncePerLogin
  <2>. QED  BY <1>1, <2>1, <2>2, <2>3 DEF OncePerLogin
<1>7. \A r \in rows : r.id \in DOMAIN issued /\ r.expiresAt \in Nat
  BY SessionSets
<1>8. time + SessionTTL \in Nat /\ row \in [id : DOMAIN issued', expiresAt : Nat]
  BY <1>2, <1>3 DEF row
<1>9. rows' \subseteq [id : DOMAIN issued', expiresAt : Nat]
  <2>1. rows \subseteq [id : DOMAIN issued', expiresAt : Nat]
    BY <1>3 DEF SessionsTypeOK
  <2>. QED  BY <1>1, <1>8, <2>1 DEF WithoutExpired
<1>10. id \in 0 .. MaxLogins
  <2>1. SessionsTypeOK /\ MaxLogins \in Nat
    BY SessionSets
  <2>2. issued' \in Seq([login : Logins, at : Nat])
        /\ \A i, j \in DOMAIN issued' : issued'[i].login = issued'[j].login => i = j
    BY <1>3, <1>6 DEF OncePerLogin
  <2>3. /\ Len(issued') \in Nat /\ DOMAIN issued' = 1 .. Len(issued')
        /\ \A i \in DOMAIN issued' : issued'[i].login \in 1 .. MaxLogins
    <3>1. Len(issued') \in Nat /\ DOMAIN issued' = 1 .. Len(issued')
      BY <2>2, LenProperties
    <3>2. \A i \in DOMAIN issued' : issued'[i] \in [login : Logins, at : Nat]
      BY <2>2, <3>1, ElementOfSeq
    <3>. QED  BY <3>1, <3>2 DEF Logins
  <2>4. Len(issued') <= MaxLogins
    BY <2>1, <2>2, <2>3, LoginsOfTheirOwn
  <2>. QED  BY <1>3, <2>1, <2>4
<1>11. /\ stateOf' \in [Browsers -> Cookies] /\ cookieOf' \in [Browsers -> Cookies]
       /\ \A b \in Browsers : stateOf'[b] = stateOf[b] \/ stateOf'[b].value = 0
       /\ \A b \in Browsers : cookieOf'[b] = cookieOf[b] \/ (b = c.by /\ cookieOf'[b].value = id)
  <2>1. /\ SetCookie(id, SessionTTL) \in Cookies /\ SetCookie(id, SessionTTL).value = id
        /\ NoCookie \in Cookies /\ NoCookie.value = 0
    BY <1>2, <1>10, CookieTypes
  <2>2. stateOf \in [Browsers -> Cookies] /\ cookieOf \in [Browsers -> Cookies]
    BY DEF SessionsTypeOK
  <2>. QED  BY <1>1, <2>1, <2>2
<1>12. SessionsTypeOK'
  BY <1>1, <1>3, <1>9, <1>11 DEF SessionsTypeOK
<1>13. OwnLogins'
  <2>1. \A b \in Browsers : stateOf'[b].value # 0 =>
          /\ stateOf'[b].value \in DOMAIN begunBy
          /\ begunBy[stateOf'[b].value] = b
    BY <1>11 DEF OwnLogins
  <2>2. \A b \in Browsers : cookieOf'[b].value # 0 =>
          /\ cookieOf'[b].value \in DOMAIN issued'
          /\ begunBy[issued'[cookieOf'[b].value].login] = b
    BY <1>2, <1>3, <1>4, <1>11 DEF OwnLogins
  <2>. QED  BY <1>1, <2>1, <2>2 DEF OwnLogins
<1>14. TableIsCurrent'
  <2>1. id \notin loggedOut
    BY <1>3 DEF SessionsTypeOK
  <2>2. \A r \in rows' : r.id \notin loggedOut /\ r.expiresAt = issued'[r.id].at + SessionTTL
    BY <1>1, <1>3, <1>4, <1>7, <2>1 DEF TableIsCurrent, WithoutExpired
  <2>3. ASSUME NEW i \in DOMAIN issued' \ loggedOut, time < issued'[i].at + SessionTTL
        PROVE  \E r \in rows' : r.id = i
    <3>1. CASE i = id
      BY <1>1, <1>4, <3>1
    <3>2. CASE i \in DOMAIN issued
      <4>1. PICK r \in rows : r.id = i
        BY <1>3, <2>3, <3>2 DEF TableIsCurrent
      <4>2. r.expiresAt = issued[i].at + SessionTTL /\ r.expiresAt > time
        BY <1>2, <1>3, <2>3, <3>2, <4>1, SessionSets DEF TableIsCurrent
      <4>. QED  BY <1>1, <4>1, <4>2 DEF WithoutExpired
    <3>. QED  BY <1>3, <2>3, <3>1, <3>2
  <2>. QED  BY <1>1, <2>2, <2>3 DEF TableIsCurrent
<1>. QED  BY <1>6, <1>12, <1>13, <1>14

\* A session is ended, in the table and in the browser.
LEMMA LogoutKeepsLogins ==
  ASSUME LoginInv, NEW b \in Browsers, Logout(b)
  PROVE  LoginInv'
<1>. USE DEF LoginInv
<1>. DEFINE id == Sent(cookieOf[b])
<1>1. /\ UNCHANGED <<time, begunBy, returning, spent, stateOf, calls, issued>>
      /\ rows' = {r \in rows : r.id # id} /\ loggedOut' = loggedOut \cup ({id} \ {0})
      /\ cookieOf' = [cookieOf EXCEPT ![b] = NoCookie]
  BY DEF Logout
<1>2. id # 0 => id \in DOMAIN issued
  BY SentIsSet DEF OwnLogins
<1>. HIDE DEF id
<1>3. NoCookie \in Cookies /\ NoCookie.value = 0
  <2>1. 0 \in 0 .. MaxLogins /\ 0 \in Nat
    BY SessionSets
  <2>. QED  BY <2>1, CookieTypes
<1>4. SessionsTypeOK'
  BY <1>1, <1>2, <1>3 DEF SessionsTypeOK
<1>5. OwnLogins'
  <2>1. cookieOf \in [Browsers -> Cookies]
    BY DEF SessionsTypeOK
  <2>. QED  BY <1>1, <1>3, <2>1 DEF OwnLogins
<1>6. OncePerLogin'
  BY <1>1 DEF OncePerLogin
<1>7. TableIsCurrent'
  <2>1. \A r \in rows : r.id # 0
    BY SessionSets
  <2>. QED  BY <1>1, <2>1 DEF TableIsCurrent
<1>. QED  BY <1>4, <1>5, <1>6, <1>7

\* Nobody has logged in at first.
LEMMA LoginInvInit == SessionsInit => LoginInv
<1>. SUFFICES ASSUME SessionsInit PROVE LoginInv
  OBVIOUS
<1>1. begunBy = <<>> /\ issued = <<>> /\ DOMAIN issued = {} /\ DOMAIN begunBy = {} /\ Len(begunBy) = 0
  BY DEF SessionsInit
<1>2. begunBy \in Seq(Browsers) /\ issued \in Seq([login : Logins, at : Nat])
  BY <1>1, EmptySeq
<1>3. 0 \in 0 .. MaxTime /\ 0 <= MaxLogins /\ NoCookie \in Cookies /\ NoCookie.value = 0
  BY SessionAssumption DEF NoCookie, Cookies
<1>4. SessionsTypeOK
  BY <1>1, <1>2, <1>3 DEF SessionsInit, SessionsTypeOK
<1>. QED  BY <1>1, <1>3, <1>4 DEF SessionsInit, LoginInv, OwnLogins, OncePerLogin, TableIsCurrent

\* Every step keeps the invariant.
LEMMA LoginInvNext == LoginInv /\ [SessionsStep]_sessionVars => LoginInv'
BY TimeKeepsLogins, LoginBegins, CallbackKeepsLogins, SessionIsIssued, LogoutKeepsLogins
   DEF SessionsStep

\* What the invariant says.
LEMMA LoginInvSays == LoginInv => SessionLivesItsTerm /\ OnlyOwnLogins
<1>. SUFFICES ASSUME LoginInv PROVE SessionLivesItsTerm /\ OnlyOwnLogins
  OBVIOUS
<1>. USE DEF LoginInv
<1>1. ASSUME NEW i \in DOMAIN issued
      PROVE  IsAccepted(i) <=> i \notin loggedOut /\ time < issued[i].at + SessionTTL
  <2>1. /\ time \in Nat /\ issued[i].at \in Nat /\ SessionTTL \in Nat
        /\ \A r \in rows : r.expiresAt \in Nat
    BY SessionSets
  <2>2. \A r \in rows : r.id = i =>
          i \notin loggedOut /\ r.expiresAt = issued[i].at + SessionTTL
    BY DEF TableIsCurrent
  <2>3. IsAccepted(i) => i \notin loggedOut /\ time < issued[i].at + SessionTTL
    BY <2>1, <2>2 DEF IsAccepted
  <2>4. ASSUME i \notin loggedOut, time < issued[i].at + SessionTTL
        PROVE  IsAccepted(i)
    <3>1. PICK r \in rows : r.id = i
      BY <2>4 DEF TableIsCurrent
    <3>. QED  BY <2>1, <2>2, <2>4, <3>1 DEF IsAccepted
  <2>. QED  BY <2>3, <2>4
<1>2. ASSUME NEW b \in Browsers, SignedInAs(b) # 0
      PROVE  begunBy[issued[SignedInAs(b)].login] = b
  <2>1. SignedInAs(b) = Sent(cookieOf[b]) /\ Sent(cookieOf[b]) # 0
    BY <1>2 DEF SignedInAs
  <2>2. SignedInAs(b) = cookieOf[b].value /\ cookieOf[b].value # 0
    BY <2>1, SentIsSet
  <2>. QED  BY <2>2 DEF OwnLogins
<1>. QED  BY <1>1, <1>2 DEF SessionLivesItsTerm, OnlyOwnLogins, OncePerLogin

\* A session works from its issue for its term or until its owner ends it, and
\* not an instant longer, for any lifetimes: the query, the sweep of other
\* logins and the stored expiry agree on the boundary (getSession,
\* deleteExpiredSessions, createSession).
THEOREM SessionsLiveTheirTerm == SessionsSpec => []SessionLivesItsTerm
BY LoginInvInit, LoginInvNext, LoginInvSays, PTL DEF SessionsSpec

\* Whoever is signed in in a browser agreed to a login that began in it, and a
\* login has one session, wherever and however often callbacks are opened
\* (handleCallback).
THEOREM LoginsStayTheirOwn == SessionsSpec => []OnlyOwnLogins
BY LoginInvInit, LoginInvNext, LoginInvSays, PTL DEF SessionsSpec


-----------------------------------------------------------------------------
(* The profile form.                                                        *)

SavingStates ==
  {NotSaving} \cup [stage : {"reading", "sent", "done"},
                    body : [Fields -> Value \cup {Unset}]]

\* Until Discord has it, the body of a save is what was entered at the click:
\* entering goes on meanwhile, and does not reach it.
ProfileInv ==
  /\ ProfileTypeOK
  /\ sending \in [Admins -> SavingStates]
  /\ meant \in [Admins -> [Fields -> Value \cup {Unset}]]
  /\ \A a \in Admins : sending[a].stage \in {"reading", "sent"} =>
                         sending[a].body = meant[a]

\* It holds in an empty form.
LEMMA ProfileInvInit == ProfileInit => ProfileInv
<1>. SUFFICES ASSUME ProfileInit  PROVE ProfileInv
  OBVIOUS
<1>1. BotDefault \in Value
  BY DEF Value
<1>2. NothingEntered \in [Fields -> Value \cup {Unset}]
  BY DEF NothingEntered
<1>3. edits \in 0 .. MaxEdits
  BY ProfileAssumption DEF ProfileInit
<1>4. NotSaving.stage = "idle" /\ NotSaving \in SavingStates
  BY DEF NotSaving, SavingStates
<1>. QED  BY <1>1, <1>2, <1>3, <1>4 DEF ProfileInit, ProfileInv, ProfileTypeOK

\* A save moves on by one stage at a time and keeps its body.
LEMMA ProfileInvNext == ProfileInv /\ [ProfileStep]_profileVars => ProfileInv'
<1>. SUFFICES ASSUME ProfileInv, [ProfileStep]_profileVars  PROVE ProfileInv'
  OBVIOUS
<1>. USE DEF ProfileInv
<1>1. NotSaving.stage = "idle" /\ NotSaving \in SavingStates
  BY DEF NotSaving, SavingStates
<1>2. NothingEntered \in [Fields -> Value \cup {Unset}]
  BY DEF NothingEntered
<1>3. ASSUME NEW a \in Admins, Load(a)  PROVE ProfileInv'
  <2>1. profile["nick"] \in Value
    BY DEF ProfileTypeOK, Fields
  <2>. QED  BY <1>3, <2>1 DEF Load, ProfileTypeOK
<1>4. ASSUME NEW a \in Admins, ClickSave(a)  PROVE ProfileInv'
  <2>1. entered[a] \in [Fields -> Value \cup {Unset}]
    BY DEF ProfileTypeOK
  <2>2. [stage |-> "reading", body |-> entered[a]] \in SavingStates
    BY <2>1 DEF SavingStates
  <2>3. /\ sending' = [sending EXCEPT ![a] = [stage |-> "reading", body |-> entered[a]]]
        /\ meant' = [meant EXCEPT ![a] = entered[a]]
        /\ UNCHANGED <<profile, entered, known, edits>>
    BY <1>4 DEF ClickSave, SavedFields
  <2>4. ProfileTypeOK'
    BY <2>3 DEF ProfileTypeOK
  <2>. QED  BY <2>1, <2>2, <2>3, <2>4
<1>5. ASSUME NEW a \in Admins, FilesRead(a)  PROVE ProfileInv'
  <2>1. sending[a] \in [stage : {"reading", "sent", "done"},
                        body : [Fields -> Value \cup {Unset}]]
    BY <1>5 DEF FilesRead, SavingStates, NotSaving
  <2>2. /\ sending' = [sending EXCEPT ![a] = [sending[a] EXCEPT !.stage = "sent"]]
        /\ sending[a].stage = "reading"
        /\ UNCHANGED <<profile, entered, known, edits, meant>>
    BY <1>5 DEF FilesRead
  <2>3. /\ [sending[a] EXCEPT !.stage = "sent"] \in SavingStates
        /\ [sending[a] EXCEPT !.stage = "sent"].stage = "sent"
        /\ [sending[a] EXCEPT !.stage = "sent"].body = sending[a].body
    BY <2>1 DEF SavingStates
  <2>4. ProfileTypeOK'
    BY <2>2, <2>3 DEF ProfileTypeOK
  <2>. QED  BY <2>2, <2>3, <2>4
<1>6. ASSUME NEW a \in Admins, Update(a)  PROVE ProfileInv'
  <2>1. sending[a] \in [stage : {"reading", "sent", "done"},
                        body : [Fields -> Value \cup {Unset}]]
    BY <1>6 DEF Update, SavingStates, NotSaving
  <2>2. /\ sending' = [sending EXCEPT ![a] = [sending[a] EXCEPT !.stage = "done"]]
        /\ profile' = [f \in Fields |-> IF sending[a].body[f] = Unset THEN profile[f]
                                        ELSE sending[a].body[f]]
        /\ UNCHANGED <<entered, known, edits, meant>>
    BY <1>6 DEF Update
  <2>3. /\ [sending[a] EXCEPT !.stage = "done"] \in SavingStates
        /\ [sending[a] EXCEPT !.stage = "done"].stage = "done"
    BY <2>1 DEF SavingStates
  <2>4. profile' \in [Fields -> Value]
    BY <2>1, <2>2 DEF ProfileTypeOK
  <2>5. ProfileTypeOK'
    BY <2>2, <2>3, <2>4 DEF ProfileTypeOK
  <2>. QED  BY <2>2, <2>3, <2>5
<1>7. ASSUME NEW a \in Admins, Saved(a)  PROVE ProfileInv'
  BY <1>1, <1>2, <1>7 DEF Saved, ProfileTypeOK
<1>8. ASSUME NEW a \in Admins, SaveFails(a)  PROVE ProfileInv'
  BY <1>1, <1>8 DEF SaveFails, ProfileTypeOK
<1>9. ASSUME NEW a \in Admins, NEW f \in Fields, NEW v \in Value \cup {Unset}, Enter(a, f, v)
      PROVE  ProfileInv'
  <2>1. edits' \in 0 .. MaxEdits
    BY <1>9, ProfileAssumption DEF Enter, ProfileTypeOK
  <2>2. entered[a] \in [Fields -> Value \cup {Unset}]
    BY DEF ProfileTypeOK
  <2>3. [entered[a] EXCEPT ![f] = v] \in [Fields -> Value \cup {Unset}]
    BY <2>2
  <2>4. /\ entered' = [entered EXCEPT ![a] = [entered[a] EXCEPT ![f] = v]]
        /\ UNCHANGED <<profile, known, sending, meant>>
    BY <1>9 DEF Enter
  <2>5. entered' \in [Admins -> [Fields -> Value \cup {Unset}]]
    BY <2>3, <2>4 DEF ProfileTypeOK
  <2>. QED  BY <2>1, <2>4, <2>5 DEF ProfileTypeOK
<1>10. CASE UNCHANGED profileVars
  BY <1>10 DEF profileVars, ProfileTypeOK
<1>. QED  BY <1>3, <1>4, <1>5, <1>6, <1>7, <1>8, <1>9, <1>10 DEF ProfileStep

\* Only Discord's answer to a save changes the profile.
LEMMA ProfileInvSays ==
  ASSUME ProfileInv, [ProfileStep]_profileVars, NEW f \in Fields, profile'[f] # profile[f]
  PROVE  \E a \in Admins : sending[a].stage = "sent" /\ sending'[a] # sending[a]
                           /\ meant[a][f] = profile'[f]
<1>1. PICK a \in Admins : Update(a)
  BY DEF ProfileStep, profileVars, Load, ClickSave, FilesRead, Saved, SaveFails, Enter
<1>2. sending[a].stage = "sent" /\ sending[a].body = meant[a]
  BY <1>1 DEF Update, ProfileInv
<1>3. sending'[a].stage = "done"
  BY <1>1, <1>2 DEF Update, ProfileInv, SavingStates, NotSaving
<1>4. profile'[f] = meant[a][f]
  BY <1>1, <1>2 DEF Update
<1>. QED  BY <1>2, <1>3, <1>4

\* The same of every step, those that stutter included.
LEMMA ProfileSaves ==
  ProfileInv /\ [ProfileStep]_profileVars =>
        [\A f \in Fields : profile'[f] # profile[f] =>
           \E a \in Admins : sending[a].stage = "sent" /\ sending'[a] # sending[a]
                             /\ meant[a][f] = profile'[f]]_profileVars
BY ProfileInvSays

\* OnlyWhatWasEntered: a save changes the fields its author entered something
\* in, to what the author entered, and leaves the others to whoever else saves.
THEOREM SavesOnlyWhatWasEntered == ProfileSpec => OnlyWhatWasEntered
BY ProfileSaves, ProfileInvInit, ProfileInvNext, PTL DEF ProfileSpec, OnlyWhatWasEntered


-----------------------------------------------------------------------------
(* Settings.  While a save waits for Discord, the observer's memory of it    *)
(* covers what the code has read for it.                                    *)

\* Has(u, ManageGuild), the roles and what u may grant are noted at once.
Noted ==
  \A u \in Users : saving[u] # NoSave =>
    LET asked == TargetsOf(saving[u].body.rules) IN
    /\ Has(u, "ManageGuild") => seen[u].admin
    /\ roles \subseteq seen[u].roles
    /\ (TargetsOf(settings.rules) \cup Grantable(u)) \cap asked \subseteq seen[u].may
    /\ Grantable(u) \cap asked \subseteq vouched

\* Rule i of a save has been judged: it refers to roles of this guild, and its
\* target is what u may grant or what was in force.
Judged(u, rule) ==
  RefersTo(rule) \subseteq seen[u].roles /\ rule.target \in seen[u].may \cap vouched

\* invalidReference: where the loop waits, the rules before are judged.
JudgedUpTo(u, s) ==
  /\ seen[u].admin
  /\ s.known \subseteq seen[u].roles
  /\ s.saved \subseteq vouched
  /\ s.saved \cap TargetsOf(s.body.rules) \subseteq seen[u].may
  /\ s.at \in 1 .. Len(s.body.rules)
  /\ RefersTo(s.body.rules[s.at]) \subseteq s.known
  /\ \A i \in 1 .. s.at - 1 : Judged(u, s.body.rules[i])

JudgedSoFar ==
  \A u \in Users : saving[u].stage = "grant" => JudgedUpTo(u, saving[u])

\* What is in force, what a scan has read and what was given is vouched for.
AllVouched ==
  /\ GrantsVouched
  /\ scan # Waiting => TargetsOf(scan.rules) \subseteq vouched
  /\ scan.stage = "adding" => scan.adds \subseteq vouched

\* The rules of a configuration.
LEMMA ConfigTypes ==
  ASSUME NEW rules \in Configs
  PROVE  /\ Len(rules) \in Nat
         /\ \A i \in 1 .. Len(rules) :
              rules[i].target \in Roles /\ RefersTo(rules[i]) \subseteq Roles
         /\ TargetsOf(rules) \subseteq Roles
         /\ \A i \in 1 .. Len(rules) : rules[i].target \in TargetsOf(rules)
<1>. DEFINE Rule == [sources : (SUBSET Roles) \ {{}}, target : Roles]
<1>1. rules \in Seq(Rule)
  BY GuildAssumption
<1>. HIDE DEF Rule
<1>2. Len(rules) \in Nat /\ \A i \in 1 .. Len(rules) : rules[i] \in Rule
  BY <1>1, LenProperties, ElementOfSeq
<1>3. \A i \in 1 .. Len(rules) : rules[i].target \in Roles /\ rules[i].sources \subseteq Roles
  BY <1>2 DEF Rule
<1>. QED  BY <1>2, <1>3 DEF TargetsOf, RefersTo

\* A guild without a row has no rules.
LEMMA DefaultTypes == Default \in Body /\ TargetsOf(Default.rules) = {}
<1>1. Default \in Body
  BY GuildAssumption DEF Default, Body
<1>2. Len(<<>>) = 0
  BY EmptyQueue
<1>. QED  BY <1>1, <1>2 DEF Default, TargetsOf

\* The stages of a save.
SaveStates ==
  {NoSave} \cup [stage : {"access"}, body : Body]
    \cup [stage : {"grant"}, body : Body, at : Nat,
          known : SUBSET Roles, saved : SUBSET Roles]

\* What a save holds, by its stage.
LEMMA SaveTypes ==
  ASSUME NEW s \in SaveStates
  PROVE  /\ NoSave.stage = "none"
         /\ s.stage = "access" => s # NoSave
         /\ s.stage = "grant" =>
              /\ s # NoSave /\ s.at \in Nat
              /\ s.known \subseteq Roles /\ s.saved \subseteq Roles
         /\ s # NoSave =>
              /\ s.stage \in {"access", "grant"} /\ s.body \in Body
              /\ s.body.rules \in Configs /\ TargetsOf(s.body.rules) \subseteq Roles
<1>. DEFINE A == [stage : {"access"}, body : Body]
            G == [stage : {"grant"}, body : Body, at : Nat,
                  known : SUBSET Roles, saved : SUBSET Roles]
<1>1. s \in {NoSave} \cup A \cup G
  BY DEF SaveStates
<1>2. NoSave.stage = "none" /\ \A t \in A : t.stage = "access" /\ t.body \in Body
  BY DEF NoSave
<1>3. \A t \in G : /\ t.stage = "grant" /\ t.body \in Body /\ t.at \in Nat
                   /\ t.known \subseteq Roles /\ t.saved \subseteq Roles
  OBVIOUS
<1>. HIDE DEF A, G
<1>4. \A b \in Body : b.rules \in Configs /\ TargetsOf(b.rules) \subseteq Roles
  <2>1. \A b \in Body : b.rules \in Configs
    BY DEF Body
  <2>. QED  BY <2>1, ConfigTypes
<1>. QED  BY <1>1, <1>2, <1>3, <1>4

\* What the observer remembers of a save is never forgotten while it lasts.
LEMMA MemoryGrows ==
  ASSUME Observe
  PROVE  /\ vouched \subseteq vouched'
         /\ \A u \in Users : saving'[u] # NoSave =>
              /\ seen[u].admin => seen'[u].admin
              /\ seen[u].roles \subseteq seen'[u].roles
              /\ seen[u].may \subseteq seen'[u].may
BY DEF Observe

\* The observer notes what is true in the next state.
LEMMA NotedNext == ASSUME Observe  PROVE Noted'
<1>. SUFFICES ASSUME NEW u \in Users, saving'[u] # NoSave
              PROVE  /\ Has(u, "ManageGuild")' => seen'[u].admin
                     /\ roles' \subseteq seen'[u].roles
                     /\ (TargetsOf(settings.rules) \cup Grantable(u))'
                          \cap TargetsOf(saving'[u].body.rules) \subseteq seen'[u].may
                     /\ Grantable(u)' \cap TargetsOf(saving'[u].body.rules)
                          \subseteq vouched'
  BY DEF Noted
<1>1. seen'[u] =
        [admin |-> seen[u].admin \/ Has(u, "ManageGuild")',
         roles |-> seen[u].roles \cup roles',
         may |-> seen[u].may \cup ((TargetsOf(settings.rules) \cup Grantable(u))'
                                     \cap AskedBy(u))]
  BY DEF Observe
<1>2. vouched' = vouched \cup
        UNION {Grantable(w)' \cap AskedBy(w) :
                 w \in {v \in Users : saving'[v] # NoSave}}
  BY DEF Observe
<1>3. /\ Has(u, "ManageGuild")' => seen'[u].admin
      /\ roles' \subseteq seen'[u].roles
      /\ (TargetsOf(settings.rules) \cup Grantable(u))' \cap AskedBy(u)
           \subseteq seen'[u].may
  <2>1. seen'[u].admin = (seen[u].admin \/ Has(u, "ManageGuild")')
    BY <1>1
  <2>2. Has(u, "ManageGuild")' => seen'[u].admin
    BY <2>1, Zenon
  <2>3. roles' \subseteq seen'[u].roles
    BY <1>1
  <2>4. seen'[u].may = seen[u].may \cup ((TargetsOf(settings.rules) \cup Grantable(u))'
                                           \cap AskedBy(u))
    BY <1>1
  <2>. QED  BY <2>2, <2>3, <2>4
<1>4. Grantable(u)' \cap AskedBy(u) \subseteq vouched'
  BY <1>2
<1>. QED  BY <1>3, <1>4 DEF AskedBy

\* The types of what it remembers.
LEMMA MemoryTypes ==
  ASSUME TypeOK, Observe, saving' \in [Users -> SaveStates], roles' \subseteq Roles
  PROVE  /\ seen' \in [Users -> [admin : BOOLEAN, roles : SUBSET Roles,
                                 may : SUBSET Roles]]
         /\ vouched' \subseteq Roles
<1>1. \A u \in Users : saving'[u] # NoSave => AskedBy(u) \subseteq Roles
  <2>1. \A u \in Users : saving'[u] \in SaveStates
    OBVIOUS
  <2>. QED  BY <2>1, SaveTypes DEF AskedBy
<1>2. ASSUME NEW u \in Users
      PROVE  seen'[u] \in [admin : BOOLEAN, roles : SUBSET Roles, may : SUBSET Roles]
  <2>1. seen[u] \in [admin : BOOLEAN, roles : SUBSET Roles, may : SUBSET Roles]
    BY DEF TypeOK
  <2>2. CASE saving'[u] = NoSave
    BY <2>2 DEF Observe, Nothing
  <2>3. CASE saving'[u] # NoSave
    BY <1>1, <2>1, <2>3 DEF Observe
  <2>. QED  BY <2>2, <2>3
<1>3. seen' \in [Users -> [admin : BOOLEAN, roles : SUBSET Roles, may : SUBSET Roles]]
  BY <1>2 DEF Observe
<1>4. vouched \subseteq Roles
  BY DEF TypeOK
<1>. QED  BY <1>1, <1>3, <1>4 DEF Observe

\* The loop over the rules from one on: either it goes through and the body is
\* written, or it waits at a rule of known roles, or the save is refused.  What
\* it passed over has a target that was in force.
LEMMA CheckRulesOutcome ==
  ASSUME NEW u, NEW body \in Body, NEW read \in SUBSET Roles,
         NEW saved \in SUBSET Roles, NEW from \in Nat \ {0},
         CheckRules(u, body, read, saved, from)
  PROVE  LET passed(i) == RefersTo(body.rules[i]) \subseteq read
                          /\ body.rules[i].target \in saved
         IN \/ /\ settings' = body /\ saving' = [saving EXCEPT ![u] = NoSave]
               /\ \A i \in from .. Len(body.rules) : passed(i)
            \/ /\ settings' = settings
               /\ \E at \in from .. Len(body.rules) :
                    /\ saving' = [saving EXCEPT ![u] =
                         [stage |-> "grant", body |-> body, at |-> at,
                          known |-> read, saved |-> saved]]
                    /\ RefersTo(body.rules[at]) \subseteq read
                    /\ \A i \in from .. at - 1 : passed(i)
            \/ settings' = settings /\ saving' = [saving EXCEPT ![u] = NoSave]
<1>. DEFINE rule(i) == body.rules[i]
            passed(i) == RefersTo(body.rules[i]) \subseteq read
                         /\ body.rules[i].target \in saved
            stops == {i \in from .. Len(body.rules) :
                        ~ RefersTo(rule(i)) \subseteq read \/ rule(i).target \notin saved}
            stop == CHOOSE i \in stops : \A j \in stops : i <= j
<1>1. Len(body.rules) \in Nat
  <2>1. body.rules \in Configs
    BY DEF Body
  <2>. QED  BY <2>1, ConfigTypes
<1>2. \A i \in from .. Len(body.rules) : i \notin stops => passed(i)
  OBVIOUS
<1>3. stops \subseteq from .. Len(body.rules) /\ from .. Len(body.rules) \subseteq Nat
  BY <1>1
<1>. HIDE DEF passed
<1>4. CASE stops = {}
  <2>1. settings' = body /\ saving' = [saving EXCEPT ![u] = NoSave]
    BY <1>4 DEF CheckRules
  <2>2. \A i \in from .. Len(body.rules) : passed(i)
    BY <1>2, <1>4
  <2>. QED  BY <2>1, <2>2 DEF passed
<1>5. CASE stops # {}
  <2>1. \/ /\ saving' = [saving EXCEPT ![u] =
                [stage |-> "grant", body |-> body, at |-> stop, known |-> read,
                 saved |-> saved]]
           /\ UNCHANGED settings
           /\ RefersTo(rule(stop)) \subseteq read
        \/ Refuse(u)
    BY <1>5 DEF CheckRules
  <2>. HIDE DEF stops
  <2>2. stop \in stops /\ \A j \in stops : stop <= j
    <3>1. stops \in SUBSET Nat /\ stops # {}
      BY <1>3, <1>5
    <3>2. \E i \in stops : \A j \in stops : i <= j
      BY ONLY <3>1, FirstOf
    <3>. QED  BY ONLY <3>2
  <2>. HIDE DEF stop
  <2>3. stop \in from .. Len(body.rules)
    BY <1>3, <2>2
  <2>4. \A i \in from .. stop - 1 : passed(i)
    <3>1. \A i \in from .. stop - 1 : i \in from .. Len(body.rules) /\ ~ (stop <= i)
      BY ONLY <1>1, <2>3
    <3>. QED  BY <1>2, <2>2, <3>1
  <2>. QED  BY <2>1, <2>3, <2>4 DEF passed, Refuse
<1>. QED  BY <1>4, <1>5


\* An answer of Discord's to a save: if the body is written, all of it has been
\* judged; if the save goes on to wait, what it has read is remembered.
LEMMA AnswerOutcome ==
  ASSUME TypeOK, Noted, JudgedSoFar, AllVouched, NEW u \in Users,
         AccessAnswered(u) \/ GrantAnswered(u)
  PROVE  LET body == saving[u].body IN
         /\ saving[u] # NoSave /\ body \in Body
         /\ \/ /\ settings' = body /\ saving' = [saving EXCEPT ![u] = NoSave]
               /\ seen[u].admin
               /\ \A i \in 1 .. Len(body.rules) : Judged(u, body.rules[i])
            \/ /\ settings' = settings
               /\ \E read, saved \in SUBSET Roles, at \in 1 .. Len(body.rules) :
                    /\ saving' = [saving EXCEPT ![u] =
                         [stage |-> "grant", body |-> body, at |-> at,
                          known |-> read, saved |-> saved]]
                    /\ seen[u].admin /\ read \subseteq seen[u].roles
                    /\ saved \subseteq vouched
                    /\ saved \cap TargetsOf(body.rules) \subseteq seen[u].may
                    /\ RefersTo(body.rules[at]) \subseteq read
                    /\ \A i \in 1 .. at - 1 : Judged(u, body.rules[i])
            \/ settings' = settings /\ saving' = [saving EXCEPT ![u] = NoSave]
<1>. DEFINE body == saving[u].body
            asked == TargetsOf(body.rules)
<1>1. saving[u] \in SaveStates
  BY DEF TypeOK, SaveStates
<1>2. /\ saving[u] # NoSave /\ body \in Body /\ body.rules \in Configs
  BY <1>1, SaveTypes DEF AccessAnswered, GrantAnswered
<1>3. /\ Len(body.rules) \in Nat
      /\ \A i \in 1 .. Len(body.rules) : body.rules[i].target \in asked
                                         /\ body.rules[i].target \in Roles
  BY <1>2, ConfigTypes
<1>4. /\ Has(u, "ManageGuild") => seen[u].admin
      /\ roles \subseteq seen[u].roles
      /\ (TargetsOf(settings.rules) \cup Grantable(u)) \cap asked \subseteq seen[u].may
      /\ Grantable(u) \cap asked \subseteq vouched
  BY <1>2 DEF Noted
\* The loop goes on from a rule on, with all before it judged.
<1>5. ASSUME NEW read \in SUBSET Roles, NEW saved \in SUBSET Roles,
             NEW from \in 1 .. Len(body.rules) + 1, seen[u].admin,
             read \subseteq seen[u].roles, saved \subseteq vouched,
             saved \cap asked \subseteq seen[u].may,
             \A i \in 1 .. from - 1 : Judged(u, body.rules[i]),
             CheckRules(u, body, read, saved, from)
      PROVE  \/ /\ settings' = body /\ saving' = [saving EXCEPT ![u] = NoSave]
                /\ \A i \in 1 .. Len(body.rules) : Judged(u, body.rules[i])
             \/ /\ settings' = settings
                /\ \E at \in 1 .. Len(body.rules) :
                     /\ saving' = [saving EXCEPT ![u] =
                          [stage |-> "grant", body |-> body, at |-> at,
                           known |-> read, saved |-> saved]]
                     /\ RefersTo(body.rules[at]) \subseteq read
                     /\ \A i \in 1 .. at - 1 : Judged(u, body.rules[i])
             \/ settings' = settings /\ saving' = [saving EXCEPT ![u] = NoSave]
  <2>. DEFINE passed(i) == RefersTo(body.rules[i]) \subseteq read
                           /\ body.rules[i].target \in saved
  <2>1. \A i \in 1 .. Len(body.rules) : passed(i) => Judged(u, body.rules[i])
    BY <1>3, <1>5 DEF Judged
  <2>. HIDE DEF passed
  <2>2. from \in Nat \ {0}
    BY <1>3
  <2>. HIDE DEF body
  <2>3. \/ /\ settings' = body /\ saving' = [saving EXCEPT ![u] = NoSave]
           /\ \A i \in from .. Len(body.rules) : passed(i)
        \/ /\ settings' = settings
           /\ \E at \in from .. Len(body.rules) :
                /\ saving' = [saving EXCEPT ![u] =
                     [stage |-> "grant", body |-> body, at |-> at,
                      known |-> read, saved |-> saved]]
                /\ RefersTo(body.rules[at]) \subseteq read
                /\ \A i \in from .. at - 1 : passed(i)
        \/ settings' = settings /\ saving' = [saving EXCEPT ![u] = NoSave]
    BY <1>2, <1>5, <2>2, CheckRulesOutcome DEF passed
  <2>4. ASSUME NEW at \in from .. Len(body.rules) + 1,
               \A i \in from .. at - 1 : passed(i)
        PROVE  \A i \in 1 .. at - 1 : Judged(u, body.rules[i])
    <3>1. \A i \in 1 .. at - 1 :
            \/ i \in 1 .. from - 1
            \/ i \in from .. at - 1 /\ i \in 1 .. Len(body.rules)
      BY ONLY <1>3, <1>5, <2>2
    <3>. QED  BY <1>5, <2>1, <2>4, <3>1
  <2>5. Len(body.rules) + 1 \in from .. Len(body.rules) + 1
        /\ (Len(body.rules) + 1) - 1 = Len(body.rules)
    BY <1>3
  <2>6. (\A i \in from .. Len(body.rules) : passed(i))
          => \A i \in 1 .. Len(body.rules) : Judged(u, body.rules[i])
    BY <2>4, <2>5
  <2>7. \A at \in from .. Len(body.rules) :
          at \in 1 .. Len(body.rules) /\ at \in from .. Len(body.rules) + 1
    BY <1>3, <2>2
  <2>8. \A at \in from .. Len(body.rules) : (\A i \in from .. at - 1 : passed(i))
          => \A i \in 1 .. at - 1 : Judged(u, body.rules[i])
    BY <2>4, <2>7
  <2>. QED  BY <2>3, <2>6, <2>7, <2>8
<1>6. CASE AccessAnswered(u)
  <2>1. \/ Refuse(u)
        \/ Has(u, "ManageGuild")
           /\ CheckRules(u, body, roles, TargetsOf(settings.rules), 1)
    BY <1>6 DEF AccessAnswered, IsAdmin
  <2>2. CASE Refuse(u)
    BY <1>2, <2>2 DEF Refuse
  <2>3. CASE Has(u, "ManageGuild")
             /\ CheckRules(u, body, roles, TargetsOf(settings.rules), 1)
    <3>1. roles \in SUBSET Roles /\ TargetsOf(settings.rules) \in SUBSET Roles
      <4>1. settings.rules \in Configs /\ roles \subseteq Roles
        BY DEF TypeOK, Body
      <4>. QED  BY <4>1, ConfigTypes
    <3>2. TargetsOf(settings.rules) \subseteq vouched
      BY DEF AllVouched, GrantsVouched
    <3>3. 1 \in 1 .. Len(body.rules) + 1 /\ 1 .. 1 - 1 = {}
      BY <1>3
    <3>4. TargetsOf(settings.rules) \cap asked \subseteq seen[u].may
      BY <1>4
    <3>. HIDE DEF body, asked
    <3>. QED  BY <1>2, <1>4, <1>5, <2>3, <3>1, <3>2, <3>3, <3>4 DEF body, asked
  <2>. QED  BY <2>1, <2>2, <2>3
<1>7. CASE GrantAnswered(u)
  <2>. DEFINE s == saving[u]
  <2>1. /\ s.stage = "grant"
        /\ \/ Refuse(u)
           \/ /\ CanGrant(u, body.rules[s.at].target)
              /\ CheckRules(u, body, s.known, s.saved, s.at + 1)
    BY <1>7 DEF GrantAnswered
  <2>2. /\ seen[u].admin /\ s.known \subseteq seen[u].roles
        /\ s.saved \subseteq vouched /\ s.saved \cap asked \subseteq seen[u].may
        /\ s.at \in 1 .. Len(body.rules)
        /\ RefersTo(body.rules[s.at]) \subseteq s.known
        /\ \A i \in 1 .. s.at - 1 : Judged(u, body.rules[i])
    BY <2>1 DEF JudgedSoFar, JudgedUpTo
  <2>3. s.known \in SUBSET Roles /\ s.saved \in SUBSET Roles
    BY <1>1, <2>1, SaveTypes
  <2>4. CASE Refuse(u)
    BY <1>2, <2>4 DEF Refuse
  <2>5. CASE /\ CanGrant(u, body.rules[s.at].target)
             /\ CheckRules(u, body, s.known, s.saved, s.at + 1)
    <3>1. body.rules[s.at].target \in Grantable(u) \cap asked
      BY <1>3, <2>2, <2>5 DEF Grantable
    <3>2. Judged(u, body.rules[s.at])
      BY <1>4, <2>2, <3>1 DEF Judged
    <3>. HIDE DEF body, asked, s
    <3>3. /\ s.at + 1 \in 1 .. Len(body.rules) + 1
          /\ \A i \in 1 .. (s.at + 1) - 1 : i = s.at \/ i \in 1 .. s.at - 1
      BY ONLY <1>3, <2>2
    <3>4. \A i \in 1 .. (s.at + 1) - 1 : Judged(u, body.rules[i])
      BY <2>2, <3>2, <3>3
    <3>. QED  BY <1>2, <1>5, <2>2, <2>3, <2>5, <3>3, <3>4 DEF body, asked
  <2>. QED  BY <2>1, <2>4, <2>5
<1>. QED  BY <1>6, <1>7


-----------------------------------------------------------------------------
(* The scan.  Whoever is owed a role is on what is left of the page, or       *)
(* comes after it.                                                          *)

ScanStates ==
  {Waiting}
    \cup [stage : {"listing"}, rules : Configs, after : Nat]
    \cup [stage : {"adding"}, rules : Configs, page : Seq(Members),
          last : Nat, full : BOOLEAN, adds : SUBSET Roles]

\* A scan in state w comes to all that is owed.
Serves(w, debts) ==
  /\ w = Waiting => debts = {}
  /\ w.stage = "listing" => \A d \in debts : d[1] > w.after
  /\ w.stage = "adding" =>
       /\ w.page # <<>>
       /\ \A d \in debts : \/ d[1] = Head(w.page) /\ d[2] \in w.adds
                           \/ d[1] \in Entries(Tail(w.page))
                           \/ w.full /\ d[1] > w.last

\* What a scan holds, by its stage.
LEMMA ScanTypes ==
  ASSUME NEW w \in ScanStates
  PROVE  /\ Waiting.stage = "waiting"
         /\ w.stage = "listing" => w # Waiting /\ w.rules \in Configs /\ w.after \in Nat
         /\ w.stage = "adding" =>
              /\ w # Waiting /\ w.rules \in Configs /\ w.page \in Seq(Members)
              /\ w.last \in Nat /\ w.full \in BOOLEAN /\ w.adds \subseteq Roles
         /\ w # Waiting => w.stage \in {"listing", "adding"} /\ w.rules \in Configs
<1>. DEFINE L == [stage : {"listing"}, rules : Configs, after : Nat]
            A == [stage : {"adding"}, rules : Configs, page : Seq(Members),
                  last : Nat, full : BOOLEAN, adds : SUBSET Roles]
<1>1. w \in {Waiting} \cup L \cup A
  BY DEF ScanStates
<1>2. Waiting.stage = "waiting"
  BY DEF Waiting
<1>3. \A t \in L : t.stage = "listing" /\ t.rules \in Configs /\ t.after \in Nat
  OBVIOUS
<1>4. \A t \in A : /\ t.stage = "adding" /\ t.rules \in Configs /\ t.page \in Seq(Members)
                   /\ t.last \in Nat /\ t.full \in BOOLEAN /\ t.adds \subseteq Roles
  OBVIOUS
<1>. HIDE DEF L, A
<1>. QED  BY <1>1, <1>2, <1>3, <1>4

\* A page has the next members, in order; who is not on it comes after its last.
LEMMA PageOfMembers ==
  ASSUME DOMAIN held \subseteq Members, NEW after \in Nat
  PROVE  LET batch == NextPage(after)
             last == IF batch = <<>> THEN after ELSE batch[Len(batch)]
         IN  /\ batch \in Seq(Members) /\ Len(batch) \in Nat /\ last \in Nat
             /\ \A m \in DOMAIN held : m > after =>
                  m \in Entries(batch) \/ (IsFull(Len(batch)) /\ m > last)
<1>. DEFINE S == Rest(after)
            batch == NextPage(after)
            k == Smaller(PageSize, Cardinality(S))
            last == IF batch = <<>> THEN after ELSE batch[Len(batch)]
<1>1. S \subseteq Members /\ S \subseteq Nat /\ IsFiniteSet(S)
  BY GuildAssumption, PageAssumption, FS_Subset DEF Rest
<1>. HIDE DEF S
<1>2. /\ Cardinality(S) \in Nat
      /\ \A m, n \in S : m < n => Before(S, m) < Before(S, n)
      /\ \A m \in S : Before(S, m) \in 0 .. Cardinality(S) - 1
      /\ \A j \in 0 .. Cardinality(S) - 1 : \E m \in S : Before(S, m) = j
  BY ONLY <1>1, Ranks DEF Before, Below
<1>3. PageSize \in Nat /\ PageSize > 0
  BY PageAssumption
<1>4. /\ k \in Nat /\ k <= Cardinality(S) /\ (k = PageSize \/ k = Cardinality(S))
      /\ k = 0 => Cardinality(S) = 0
  BY <1>2, <1>3 DEF Smaller
<1>5. batch = [i \in 1 .. k |-> CHOOSE m \in S : Before(S, m) = i - 1]
  BY DEF NextPage, S
<1>. HIDE DEF k, batch
<1>6. ASSUME NEW i \in 1 .. k
      PROVE  batch[i] \in S /\ Before(S, batch[i]) = i - 1
  <2>1. i - 1 \in 0 .. Cardinality(S) - 1
    BY <1>2, <1>4
  <2>2. \E m \in S : Before(S, m) = i - 1
    BY <1>2, <2>1
  <2>. QED  BY <1>5, <2>2
<1>7. batch \in Seq(Members) /\ Len(batch) = k
  <2>1. \A i \in 1 .. k : batch[i] \in Members
    BY <1>1, <1>6
  <2>. QED  BY <1>4, <1>5, <2>1
<1>8. batch = <<>> => k = 0
  BY <1>7, EmptyQueue
<1>9. batch # <<>> => k > 0 /\ k \in 1 .. k /\ last = batch[k]
  BY <1>4, <1>7, EmptySeq
<1>10. last \in Nat
  BY <1>1, <1>6, <1>9
<1>. HIDE DEF last
<1>11. ASSUME NEW m \in DOMAIN held, m > after
       PROVE  m \in Entries(batch) \/ (IsFull(Len(batch)) /\ m > last)
  <2>1. m \in S /\ m \in Nat
    BY <1>1, <1>11 DEF S, Rest
  <2>. DEFINE j == Before(S, m)
  <2>2. j \in 0 .. Cardinality(S) - 1
    BY <1>2, <2>1
  <2>3. CASE j < k
    <3>1. j + 1 \in 1 .. k /\ (j + 1) - 1 = j
      BY <1>4, <2>2, <2>3
    <3>2. batch[j + 1] \in S /\ Before(S, batch[j + 1]) = j
      BY <1>6, <3>1
    <3>3. batch[j + 1] = m
      <4>. DEFINE n == batch[j + 1]
      <4>1. n \in S /\ Before(S, n) = Before(S, m)
        BY <3>2
      <4>. HIDE DEF n, j
      <4>2. n \in Nat /\ Before(S, n) \in Nat
        BY <1>1, <1>2, <4>1
      <4>3. ~ (n < m) /\ ~ (m < n)
        BY <1>2, <2>1, <4>1, <4>2
      <4>. QED  BY <2>1, <4>2, <4>3 DEF n
    <3>. QED  BY <1>7, <3>1, <3>3 DEF Entries
  <2>4. CASE ~ (j < k)
    <3>1. k = PageSize /\ k > 0 /\ k \in 1 .. k
      BY <1>2, <1>3, <1>4, <2>2, <2>4
    <3>2. last = batch[k]
      BY <1>8, <1>9, <3>1
    <3>3. last \in S /\ Before(S, last) = k - 1
      BY <1>6, <3>1, <3>2
    <3>4. IsFull(Len(batch))
      BY <1>3, <1>7, <3>1 DEF IsFull
    <3>5. m > last
      <4>1. Before(S, last) < j /\ j \in Nat /\ Before(S, last) \in Nat
        BY <1>2, <1>4, <2>2, <2>4, <3>1, <3>3
      <4>2. ~ (m < last) /\ m # last
        BY <1>2, <2>1, <3>3, <4>1
      <4>. QED  BY <1>10, <2>1, <4>2
    <3>. QED  BY <3>4, <3>5
  <2>. QED  BY <2>3, <2>4
<1>. QED  BY <1>4, <1>7, <1>10, <1>11 DEF batch, last


\* What a rule gives is its target.
LEMMA AddsAreTargets ==
  ASSUME NEW rules \in Configs, NEW own
  PROVE  RolesToAdd(own, rules) \subseteq TargetsOf(rules)
BY DEF RolesToAdd, RangeOf, TargetsOf

\* The code goes on after some members: if all that is owed, by then, is owed
\* to the others of the page or to later members, it is served.
LEMMA WalkServes ==
  ASSUME NEW rules \in Configs, NEW batch \in Seq(Members), NEW last \in Nat,
         NEW full \in BOOLEAN, NEW h, NEW debts,
         \A d \in debts : d \in Eligible(h, rules)
                          /\ (d[1] \in Entries(batch) \/ (full /\ d[1] > last))
  PROVE  LET w == Walk(rules, batch, last, full, h)
         IN  /\ w \in ScanStates /\ Serves(w, debts)
             /\ w # Waiting => w.rules = rules
             /\ w.stage = "adding" => w.adds \subseteq TargetsOf(rules)
<1>. DEFINE w == Walk(rules, batch, last, full, h)
            todo == {i \in 1 .. Len(batch) : batch[i] \in DOMAIN h
                                             /\ RolesToAdd(h[batch[i]], rules) # {}}
            first == CHOOSE i \in todo : \A j \in todo : i <= j
<1>1. Len(batch) \in Nat
  BY LenProperties
<1>2. \A d \in debts : d[1] \in DOMAIN h /\ d[2] \in RolesToAdd(h[d[1]], rules)
  BY DEF Eligible
<1>3. ASSUME NEW d \in debts, d[1] \in Entries(batch)
      PROVE  \E i \in todo : batch[i] = d[1]
  BY <1>2, <1>3 DEF Entries
<1>4. Waiting.stage = "waiting" /\ Waiting \in ScanStates
  BY DEF Waiting, ScanStates
<1>5. CASE todo = {} /\ ~ full
  <2>1. w = Waiting
    BY <1>5 DEF Walk
  <2>2. debts = {}
    BY <1>3, <1>5
  <2>. QED  BY <1>4, <2>1, <2>2 DEF Serves
<1>6. CASE todo = {} /\ full
  <2>1. w = [stage |-> "listing", rules |-> rules, after |-> last]
    BY <1>6 DEF Walk
  <2>2. \A d \in debts : d[1] > last
    BY <1>3, <1>6
  <2>3. w.stage = "listing" /\ w.after = last /\ w.rules = rules /\ w \in ScanStates
    BY <2>1 DEF ScanStates
  <2>. HIDE DEF w
  <2>. QED  BY <1>4, <2>2, <2>3 DEF Serves, w
<1>7. CASE todo # {}
  <2>. DEFINE left == SubSeq(batch, first, Len(batch))
              adds == RolesToAdd(h[batch[first]], rules)
  <2>1. w = [stage |-> "adding", rules |-> rules, last |-> last, full |-> full,
             page |-> left, adds |-> adds]
    BY <1>7 DEF Walk
  <2>2. first \in todo /\ \A j \in todo : first <= j
    <3>1. todo \in SUBSET Nat /\ todo # {}
      <4>1. 1 .. Len(batch) \subseteq Nat
        BY <1>1
      <4>. QED  BY <1>7, <4>1
    <3>2. \E i \in todo : \A j \in todo : i <= j
      <4>. HIDE DEF todo
      <4>. QED  BY ONLY <3>1, FirstOf
    <3>. HIDE DEF todo
    <3>. QED  BY ONLY <3>2
  <2>3. first \in 1 .. Len(batch)
    BY <2>2
  <2>. HIDE DEF first
  <2>4. /\ left \in Seq(Members) /\ Len(left) = Len(batch) - first + 1
        /\ \A i \in 1 .. Len(batch) - first + 1 : left[i] = batch[first + i - 1]
    BY ONLY <1>1, <2>3, batch \in Seq(Members), SubSeqProperties
  <2>. HIDE DEF left
  <2>5. left # <<>> /\ Len(left) \in Nat /\ Len(left) > 0
    BY <1>1, <2>3, <2>4, EmptyQueue
  <2>6. Head(left) = batch[first]
    BY <1>1, <2>3, <2>4, <2>5, HeadTailProperties
  <2>7. \A i \in todo : i # first => batch[i] \in Entries(Tail(left))
    <3>. SUFFICES ASSUME NEW i \in todo, i # first
                  PROVE  batch[i] \in Entries(Tail(left))
      OBVIOUS
    <3>1. /\ Len(Tail(left)) = Len(left) - 1
          /\ \A j \in 1 .. Len(left) - 1 : Tail(left)[j] = left[j + 1]
      BY <2>4, <2>5, HeadTailProperties
    <3>2. first < i /\ i \in 1 .. Len(batch)
      <4>1. i \in 1 .. Len(batch) /\ first <= i /\ first # i
        BY <2>2
      <4>. QED  BY ONLY <1>1, <2>3, <4>1
    <3>3. /\ i - first \in 1 .. Len(left) - 1
          /\ (i - first) + 1 \in 1 .. Len(batch) - first + 1
          /\ first + ((i - first) + 1) - 1 = i
      BY ONLY <1>1, <2>3, <2>4, <3>2
    <3>4. Tail(left)[i - first] = batch[i]
      BY ONLY <2>4, <3>1, <3>3
    <3>. QED  BY ONLY <3>1, <3>3, <3>4 DEF Entries
  <2>8. ASSUME NEW d \in debts
        PROVE  \/ d[1] = Head(left) /\ d[2] \in adds
               \/ d[1] \in Entries(Tail(left))
               \/ full /\ d[1] > last
    <3>1. CASE d[1] \in Entries(batch)
      <4>1. PICK i \in todo : batch[i] = d[1]
        BY <1>3, <3>1
      <4>2. CASE i = first
        BY <1>2, <2>6, <4>1, <4>2
      <4>3. CASE i # first
        BY <2>7, <4>1, <4>3
      <4>. QED  BY <4>2, <4>3
    <3>. QED  BY <3>1
  <2>9. adds \subseteq TargetsOf(rules) /\ adds \subseteq Roles
    BY AddsAreTargets, ConfigTypes
  <2>. HIDE DEF adds
  <2>10. /\ w.stage = "adding" /\ w.rules = rules /\ w.page = left /\ w.adds = adds
         /\ w.full = full /\ w.last = last /\ w \in ScanStates
    BY <2>1, <2>4, <2>9 DEF ScanStates
  <2>. HIDE DEF w
  <2>. QED  BY <1>4, <2>5, <2>8, <2>9, <2>10 DEF Serves, w
<1>. QED  BY <1>5, <1>6, <1>7


-----------------------------------------------------------------------------
(* Role synchronisation beside the saves.                                   *)

SyncInv ==
  /\ TypeOK /\ SyncTypeOK
  /\ Noted /\ JudgedSoFar /\ AllVouched
  /\ Serves(scan, owed)

\* What a step does to the settings and the saves: only a body that was judged
\* from its first rule to its last is written.
LEMMA SaveStep ==
  ASSUME SyncInv, Next
  PROVE  /\ settings' \in Body /\ saving' \in [Users -> SaveStates]
         /\ \/ settings' = settings
            \/ \E u \in Users :
                 /\ saving[u] # NoSave /\ saving'[u] = NoSave
                 /\ settings' = saving[u].body /\ seen[u].admin
                 /\ \A i \in 1 .. Len(settings'.rules) : Judged(u, settings'.rules[i])
         /\ \A u \in Users : saving'[u].stage = "grant" => JudgedUpTo(u, saving'[u])
<1>. USE DEF SyncInv
<1>1. saving \in [Users -> SaveStates] /\ settings \in Body
  BY DEF TypeOK, SaveStates
<1>2. NoSave \in SaveStates /\ NoSave.stage = "none"
  BY DEF SaveStates, NoSave
<1>3. CASE UNCHANGED <<settings, saving>>
  BY <1>1, <1>3 DEF JudgedSoFar
<1>4. CASE Crash
  <2>1. settings' = settings /\ saving' = [u \in Users |-> NoSave]
    BY <1>4 DEF Crash
  <2>. QED  BY <1>1, <1>2, <2>1
<1>5. ASSUME NEW u \in Users, NEW body \in Body, Put(u, body)
      PROVE  /\ settings' = settings /\ saving' \in [Users -> SaveStates]
             /\ \A w \in Users : saving'[w].stage = "grant" => JudgedUpTo(w, saving'[w])
  <2>. DEFINE s == [stage |-> "access", body |-> body]
  <2>1. settings' = settings /\ saving' = [saving EXCEPT ![u] = s]
    BY <1>5 DEF Put
  <2>2. s \in SaveStates /\ s.stage = "access"
    BY DEF SaveStates
  <2>. HIDE DEF s
  <2>. QED  BY <1>1, <2>1, <2>2 DEF JudgedSoFar
<1>6. ASSUME NEW u \in Users, AccessAnswered(u) \/ GrantAnswered(u)
      PROVE  /\ settings' \in Body /\ saving' \in [Users -> SaveStates]
             /\ \/ settings' = settings
                \/ /\ saving[u] # NoSave /\ saving'[u] = NoSave
                   /\ settings' = saving[u].body /\ seen[u].admin
                   /\ \A i \in 1 .. Len(settings'.rules) : Judged(u, settings'.rules[i])
             /\ \A w \in Users : saving'[w].stage = "grant" => JudgedUpTo(w, saving'[w])
  <2>. DEFINE body == saving[u].body
  <2>1. /\ saving[u] # NoSave /\ body \in Body
        /\ \/ /\ settings' = body /\ saving' = [saving EXCEPT ![u] = NoSave]
              /\ seen[u].admin
              /\ \A i \in 1 .. Len(body.rules) : Judged(u, body.rules[i])
           \/ /\ settings' = settings
              /\ \E read, saved \in SUBSET Roles, at \in 1 .. Len(body.rules) :
                   /\ saving' = [saving EXCEPT ![u] =
                        [stage |-> "grant", body |-> body, at |-> at,
                         known |-> read, saved |-> saved]]
                   /\ seen[u].admin /\ read \subseteq seen[u].roles
                   /\ saved \subseteq vouched
                   /\ saved \cap TargetsOf(body.rules) \subseteq seen[u].may
                   /\ RefersTo(body.rules[at]) \subseteq read
                   /\ \A i \in 1 .. at - 1 : Judged(u, body.rules[i])
           \/ settings' = settings /\ saving' = [saving EXCEPT ![u] = NoSave]
    BY <1>6, AnswerOutcome
  <2>2. CASE /\ settings' = body /\ saving' = [saving EXCEPT ![u] = NoSave]
             /\ seen[u].admin
             /\ \A i \in 1 .. Len(body.rules) : Judged(u, body.rules[i])
    BY <1>1, <1>2, <2>1, <2>2 DEF JudgedSoFar
  <2>3. CASE settings' = settings /\ saving' = [saving EXCEPT ![u] = NoSave]
    BY <1>1, <1>2, <2>3 DEF JudgedSoFar
  <2>4. ASSUME NEW read \in SUBSET Roles, NEW saved \in SUBSET Roles,
               NEW at \in 1 .. Len(body.rules), settings' = settings,
               saving' = [saving EXCEPT ![u] =
                  [stage |-> "grant", body |-> body, at |-> at,
                   known |-> read, saved |-> saved]],
               seen[u].admin, read \subseteq seen[u].roles, saved \subseteq vouched,
               saved \cap TargetsOf(body.rules) \subseteq seen[u].may,
               RefersTo(body.rules[at]) \subseteq read,
               \A i \in 1 .. at - 1 : Judged(u, body.rules[i])
        PROVE  /\ saving' \in [Users -> SaveStates]
               /\ \A w \in Users : saving'[w].stage = "grant" => JudgedUpTo(w, saving'[w])
    <3>. DEFINE s == [stage |-> "grant", body |-> body, at |-> at,
                      known |-> read, saved |-> saved]
    <3>1. at \in Nat
      <4>1. Len(body.rules) \in Nat
        BY <2>1, ConfigTypes DEF Body
      <4>. QED  BY <4>1
    <3>. HIDE DEF body
    <3>2. s \in SaveStates
      BY <2>1, <3>1 DEF SaveStates
    <3>3. s.body = body /\ s.at = at /\ s.known = read /\ s.saved = saved
      OBVIOUS
    <3>4. saving' = [saving EXCEPT ![u] = s]
      BY <2>4
    <3>. HIDE DEF s
    <3>5. JudgedUpTo(u, s)
      BY <2>4, <3>3 DEF JudgedUpTo
    <3>. QED  BY <1>1, <3>2, <3>4, <3>5 DEF JudgedSoFar
  <2>. QED  BY <1>1, <2>1, <2>2, <2>3, <2>4
<1>7. CASE SettingsStep
  <2>1. \/ UNCHANGED <<settings, saving>>
        \/ \E u \in Users : \/ \E body \in Body : Put(u, body)
                            \/ AccessAnswered(u) \/ GrantAnswered(u)
    BY <1>7 DEF SettingsStep, Change
  <2>. QED  BY <1>1, <1>3, <1>5, <1>6, <2>1
<1>8. CASE ScanStep
  <2>1. UNCHANGED <<settings, saving>>
    BY <1>8 DEF ScanStep, BeginScan, PageArrives, ListFails, AddRole, AddFails
  <2>. QED  BY <1>3, <2>1
<1>. QED  BY <1>4, <1>7, <1>8 DEF Next

\* Members come and go and have roles that there are.
LEMMA WorldTypes ==
  ASSUME TypeOK, Next
  PROVE  /\ DOMAIN held' \subseteq Members /\ roles' \subseteq Roles
         /\ \A m \in DOMAIN held' : held'[m] \subseteq roles'
         /\ changes' \in 0 .. MaxChanges /\ saves' \in 0 .. MaxSaves
<1>. USE DEF TypeOK
<1>1. CASE UNCHANGED world /\ UNCHANGED saves
  BY <1>1 DEF world
<1>2. CASE Change
  <2>1. changes' \in 0 .. MaxChanges /\ UNCHANGED saves
    BY <1>2, BoundAssumption DEF Change
  <2>2. ASSUME NEW m \in Members, GiveOrTake(m)
        PROVE  /\ DOMAIN held' \subseteq Members /\ roles' \subseteq Roles
               /\ \A n \in DOMAIN held' : held'[n] \subseteq roles'
    BY <2>2 DEF GiveOrTake
  <2>3. ASSUME NEW m \in Members, Leave(m)
        PROVE  /\ DOMAIN held' \subseteq Members /\ roles' \subseteq Roles
               /\ \A n \in DOMAIN held' : held'[n] \subseteq roles'
    BY <2>3 DEF Leave
  <2>4. ASSUME NEW m \in Members, Join(m)
        PROVE  /\ DOMAIN held' \subseteq Members /\ roles' \subseteq Roles
               /\ \A n \in DOMAIN held' : held'[n] \subseteq roles'
    BY <2>4 DEF Join
  <2>5. ASSUME NEW r \in Roles, DeleteRole(r)
        PROVE  /\ DOMAIN held' \subseteq Members /\ roles' \subseteq Roles
               /\ \A n \in DOMAIN held' : held'[n] \subseteq roles'
    BY <2>5 DEF DeleteRole
  <2>. QED  BY <1>2, <2>1, <2>2, <2>3, <2>4, <2>5 DEF Change
<1>3. ASSUME NEW u \in Users, NEW body \in Body, Put(u, body)
      PROVE  UNCHANGED world /\ saves' \in 0 .. MaxSaves
  BY <1>3, BoundAssumption DEF Put
<1>4. ASSUME NEW u \in Users, AccessAnswered(u) \/ GrantAnswered(u)
      PROVE  UNCHANGED world /\ UNCHANGED saves
  BY <1>4 DEF AccessAnswered, GrantAnswered
<1>5. CASE Crash \/ BeginScan \/ PageArrives \/ ListFails \/ \E r \in Roles : AddFails(r)
  <2>1. UNCHANGED world /\ UNCHANGED saves
    BY <1>5 DEF Crash, BeginScan, PageArrives, ListFails, AddFails
  <2>. QED  BY <1>1, <2>1
<1>6. ASSUME NEW r \in Roles, AddRole(r)
      PROVE  /\ DOMAIN held' \subseteq Members /\ roles' \subseteq Roles
             /\ \A m \in DOMAIN held' : held'[m] \subseteq roles'
             /\ UNCHANGED <<saves, changes>>
  <2>. DEFINE m == Head(scan.page)
  <2>1. /\ CanAdd(m, r) /\ held' = [held EXCEPT ![m] = held[m] \cup {r}]
        /\ UNCHANGED <<roles, saves, changes>>
    BY <1>6 DEF AddRole
  <2>. HIDE DEF m
  <2>. QED  BY <2>1 DEF CanAdd
<1>7. CASE SettingsStep
  <2>1. ASSUME UNCHANGED world, saves' \in 0 .. MaxSaves
        PROVE  /\ DOMAIN held' \subseteq Members /\ roles' \subseteq Roles
               /\ \A m \in DOMAIN held' : held'[m] \subseteq roles'
               /\ changes' \in 0 .. MaxChanges /\ saves' \in 0 .. MaxSaves
    BY <2>1 DEF world
  <2>. QED  BY <1>1, <1>2, <1>3, <1>4, <1>7, <2>1 DEF SettingsStep
<1>. QED  BY <1>5, <1>6, <1>7 DEF Next, ScanStep

\* So the settings and the guild are of the right types.
LEMMA SettingsTypeNext == SyncInv /\ Next => TypeOK'
<1>. SUFFICES ASSUME SyncInv, Next  PROVE TypeOK'
  OBVIOUS
<1>1. TypeOK /\ Observe
  BY DEF SyncInv, Next
<1>2. settings' \in Body /\ saving' \in [Users -> SaveStates]
  BY SaveStep
<1>3. /\ DOMAIN held' \subseteq Members /\ roles' \subseteq Roles
      /\ \A m \in DOMAIN held' : held'[m] \subseteq roles'
      /\ changes' \in 0 .. MaxChanges /\ saves' \in 0 .. MaxSaves
  BY <1>1, WorldTypes
<1>4. /\ seen' \in [Users -> [admin : BOOLEAN, roles : SUBSET Roles, may : SUBSET Roles]]
      /\ vouched' \subseteq Roles
  BY <1>1, <1>2, <1>3, MemoryTypes
<1>. QED  BY <1>2, <1>3, <1>4 DEF TypeOK, SaveStates

\* The judgements on a save stand while it waits.
LEMMA JudgedNext == SyncInv /\ Next => JudgedSoFar'
<1>. SUFFICES ASSUME SyncInv, Next, NEW u \in Users, saving'[u].stage = "grant"
              PROVE  JudgedUpTo(u, saving[u])'
  BY DEF JudgedSoFar
<1>1. JudgedUpTo(u, saving'[u]) /\ saving'[u] \in SaveStates
  BY SaveStep
<1>2. saving'[u] # NoSave
  BY <1>1, SaveTypes
<1>3. /\ vouched \subseteq vouched'
      /\ seen[u].admin => seen'[u].admin
      /\ seen[u].roles \subseteq seen'[u].roles
      /\ seen[u].may \subseteq seen'[u].may
  BY <1>2, MemoryGrows DEF Next
<1>4. \A rule : Judged(u, rule) => Judged(u, rule)'
  BY <1>3 DEF Judged
<1>. QED  BY <1>1, <1>3, <1>4 DEF JudgedUpTo


\* Who may be given a role is a member.
LEMMA EligibleTypes ==
  ASSUME NEW h, NEW rules \in Configs, NEW d \in Eligible(h, rules)
  PROVE  /\ d[1] \in DOMAIN h /\ d[2] \in RolesToAdd(h[d[1]], rules)
         /\ d = <<d[1], d[2]>> /\ d[2] \in Roles
<1>1. /\ d[1] \in DOMAIN h /\ d[2] \in RolesToAdd(h[d[1]], rules)
      /\ d = <<d[1], d[2]>>
  BY DEF Eligible
<1>2. d[2] \in Roles
  BY <1>1, AddsAreTargets, ConfigTypes
<1>. QED  BY <1>1, <1>2

\* No debt comes up during a scan.
LEMMA OwedShrinks ==
  ASSUME NEW excused, StillOwed(excused)
  PROVE  \A d \in owed' : d \in owed \ excused /\ d \in Eligible(held', scan.rules)
BY DEF StillOwed

\* A scan goes on after one role of a member.
LEMMA AfterAddServes ==
  ASSUME SyncTypeOK, Serves(scan, owed), scan.stage = "adding",
         NEW r \in scan.adds, NEW h, NEW debts \in SUBSET owed,
         \A d \in debts : d \in Eligible(h, scan.rules) /\ d # <<Head(scan.page), r>>
  PROVE  LET w == AfterAdd(r, h)
         IN  /\ w \in ScanStates /\ Serves(w, debts)
             /\ w # Waiting => w.rules = scan.rules
             /\ w.stage = "adding" =>
                  w.adds \subseteq TargetsOf(scan.rules) \cup scan.adds
<1>. DEFINE rest == scan.adds \ {r}
            w == AfterAdd(r, h)
<1>1. /\ scan # Waiting /\ scan.rules \in Configs /\ scan.page \in Seq(Members)
      /\ scan.last \in Nat /\ scan.full \in BOOLEAN /\ scan.adds \subseteq Roles
      /\ Waiting.stage = "waiting"
  BY ScanTypes DEF SyncTypeOK, ScanStates
<1>2. scan.page # <<>> /\ \A d \in owed : \/ d[1] = Head(scan.page) /\ d[2] \in scan.adds
                                          \/ d[1] \in Entries(Tail(scan.page))
                                          \/ scan.full /\ d[1] > scan.last
  BY DEF Serves
<1>3. \A d \in debts : \/ d[1] = Head(scan.page) /\ d[2] \in rest
                       \/ d[1] \in Entries(Tail(scan.page))
                       \/ scan.full /\ d[1] > scan.last
  <2>1. \A d \in debts : d = <<d[1], d[2]>>
    BY <1>1, EligibleTypes
  <2>. QED  BY <1>2, <2>1
<1>4. CASE rest # {}
  <2>1. w = [scan EXCEPT !.adds = rest]
    BY <1>4 DEF AfterAdd
  <2>2. scan \in [stage : {"adding"}, rules : Configs, page : Seq(Members),
                  last : Nat, full : BOOLEAN, adds : SUBSET Roles]
    <3>1. scan \in ScanStates /\ Waiting.stage # "adding"
      BY <1>1 DEF SyncTypeOK, ScanStates
    <3>. QED  BY <3>1 DEF ScanStates
  <2>3. /\ w.stage = "adding" /\ w.page = scan.page /\ w.adds = rest
        /\ w.full = scan.full /\ w.last = scan.last /\ w.rules = scan.rules
        /\ w \in ScanStates
    <3>1. rest \subseteq Roles
      BY <1>1
    <3>. HIDE DEF rest
    <3>. QED  BY <2>1, <2>2, <3>1 DEF ScanStates
  <2>. HIDE DEF w
  <2>. QED  BY <1>1, <1>2, <1>3, <2>3 DEF Serves, w
<1>5. CASE rest = {}
  <2>1. w = Walk(scan.rules, Tail(scan.page), scan.last, scan.full, h)
    BY <1>5 DEF AfterAdd
  <2>2. Tail(scan.page) \in Seq(Members)
    BY <1>1, <1>2, Taken
  <2>3. \A d \in debts : d \in Eligible(h, scan.rules)
          /\ (d[1] \in Entries(Tail(scan.page)) \/ (scan.full /\ d[1] > scan.last))
    BY <1>3, <1>5
  <2>. DEFINE v == Walk(scan.rules, Tail(scan.page), scan.last, scan.full, h)
  <2>4. /\ v \in ScanStates /\ Serves(v, debts)
        /\ v # Waiting => v.rules = scan.rules
        /\ v.stage = "adding" => v.adds \subseteq TargetsOf(scan.rules)
    <3>. DEFINE rs == scan.rules
                t == Tail(scan.page)
                l == scan.last
                f == scan.full
    <3>1. /\ rs \in Configs /\ t \in Seq(Members) /\ l \in Nat /\ f \in BOOLEAN
          /\ \A d \in debts : d \in Eligible(h, rs)
                             /\ (d[1] \in Entries(t) \/ (f /\ d[1] > l))
      BY <1>1, <2>2, <2>3
    <3>. HIDE DEF rs, t, l, f
    <3>2. /\ Walk(rs, t, l, f, h) \in ScanStates /\ Serves(Walk(rs, t, l, f, h), debts)
          /\ Walk(rs, t, l, f, h) # Waiting => Walk(rs, t, l, f, h).rules = rs
          /\ Walk(rs, t, l, f, h).stage = "adding" =>
               Walk(rs, t, l, f, h).adds \subseteq TargetsOf(rs)
      BY ONLY <3>1, WalkServes, ZenonT(60)
    <3>. QED  BY ONLY <3>2 DEF rs, t, l, f, v
  <2>. HIDE DEF v
  <2>. QED  BY <2>1, <2>4 DEF v
<1>. QED  BY <1>4, <1>5

\* What a step does to the scan: whoever is still owed a role is served by the
\* rest of it, and what it is about to give is a target of its rules.
LEMMA ScanMoves ==
  ASSUME SyncInv, Next
  PROVE  /\ scan' \in ScanStates /\ failures' \in 0 .. MaxFailures
         /\ owed' \subseteq Members \X Roles /\ Serves(scan', owed')
         /\ scan' # Waiting =>
              scan'.rules = settings.rules \/ (scan # Waiting /\ scan'.rules = scan.rules)
         /\ scan'.stage = "adding" =>
              scan'.adds \subseteq TargetsOf(scan'.rules)
                                     \cup IF scan.stage = "adding" THEN scan.adds ELSE {}
         /\ granted' \subseteq granted \cup IF scan.stage = "adding" THEN scan.adds ELSE {}
<1>. USE DEF SyncInv
<1>0. /\ scan \in ScanStates /\ failures \in 0 .. MaxFailures /\ MaxFailures \in Nat
      /\ owed \subseteq Members \X Roles
      /\ settings.rules \in Configs /\ DOMAIN held \subseteq Members
      /\ Waiting \in ScanStates /\ Waiting.stage = "waiting"
  BY PageAssumption DEF SyncTypeOK, ScanStates, TypeOK, Body, Waiting
<1>. DEFINE old == IF scan.stage = "adding" THEN scan.adds ELSE {}
            Fine == /\ scan' \in ScanStates /\ failures' \in 0 .. MaxFailures
                    /\ owed' \subseteq Members \X Roles /\ Serves(scan', owed')
                    /\ scan' # Waiting => scan'.rules = settings.rules
                                 \/ (scan # Waiting /\ scan'.rules = scan.rules)
                    /\ scan'.stage = "adding" =>
                         scan'.adds \subseteq TargetsOf(scan'.rules) \cup old
                    /\ granted' \subseteq granted \cup old
<1>1. \A excused : StillOwed(excused) => owed' \subseteq Members \X Roles
  BY <1>0, OwedShrinks
<1>2. CASE StillOwed(owed) /\ scan' = Waiting /\ failures' = failures + 1
            /\ failures < MaxFailures /\ UNCHANGED granted
  <2>1. owed' = {}
    BY <1>2, OwedShrinks
  <2>2. failures' \in 0 .. MaxFailures
    BY <1>0, <1>2
  <2>. QED  BY <1>0, <1>2, <2>1, <2>2 DEF Serves
<1>3. CASE SettingsStep /\ StillOwed({}) /\ UNCHANGED <<scan, failures, granted>>
  <2>1. owed' \subseteq owed
    BY <1>3, OwedShrinks
  <2>2. Serves(scan, owed')
    BY <2>1 DEF Serves
  <2>. QED  BY <1>0, <1>1, <1>3, <2>2
<1>4. CASE BeginScan
  <2>1. /\ scan' = [stage |-> "listing", rules |-> settings.rules, after |-> 0]
        /\ owed' = Eligible(held, settings.rules)
        /\ UNCHANGED <<failures, granted>>
    BY <1>4 DEF BeginScan
  <2>2. /\ scan'.stage = "listing" /\ scan'.after = 0 /\ scan'.rules = settings.rules
        /\ scan' \in ScanStates
    BY <1>0, <2>1 DEF ScanStates
  <2>3. \A d \in owed' : d[1] \in Members /\ d[2] \in Roles /\ d = <<d[1], d[2]>>
    BY <1>0, <2>1, EligibleTypes
  <2>4. \A d \in owed' : d[1] > 0
    BY <2>3, GuildAssumption
  <2>5. owed' \subseteq Members \X Roles
    BY <2>3
  <2>6. Serves(scan', owed')
    BY <1>0, <2>2, <2>4 DEF Serves
  <2>. QED  BY <1>0, <2>1, <2>2, <2>5, <2>6
<1>5. CASE PageArrives /\ StillOwed({})
  <2>. DEFINE batch == NextPage(scan.after)
              last == IF batch = <<>> THEN scan.after ELSE batch[Len(batch)]
              full == IsFull(Len(batch))
              v == Walk(scan.rules, batch, last, full, held)
  <2>1. /\ scan.stage = "listing" /\ scan' = v
        /\ UNCHANGED <<held, failures, granted>>
    BY <1>5 DEF PageArrives, world
  <2>2. scan # Waiting /\ scan.rules \in Configs /\ scan.after \in Nat
    BY <1>0, <2>1, ScanTypes
  <2>3. /\ batch \in Seq(Members) /\ last \in Nat /\ Len(batch) \in Nat
        /\ \A m \in DOMAIN held : m > scan.after =>
             m \in Entries(batch) \/ (full /\ m > last)
    BY <1>0, <2>2, PageOfMembers
  <2>4. \A d \in owed' : d \in owed /\ d \in Eligible(held, scan.rules)
    BY <1>5, <2>1, OwedShrinks
  <2>5. \A d \in owed' : d[1] > scan.after /\ d[1] \in DOMAIN held
    BY <2>1, <2>2, <2>4, EligibleTypes DEF Serves
  <2>6. full \in BOOLEAN
    BY DEF IsFull
  <2>. HIDE DEF batch, last, full
  <2>7. \A d \in owed' : d \in Eligible(held, scan.rules)
                         /\ (d[1] \in Entries(batch) \/ (full /\ d[1] > last))
    BY <2>3, <2>4, <2>5
  <2>8. /\ v \in ScanStates /\ Serves(v, owed')
        /\ v # Waiting => v.rules = scan.rules
        /\ v.stage = "adding" => v.adds \subseteq TargetsOf(scan.rules)
    <3>. DEFINE rs == scan.rules
    <3>1. /\ rs \in Configs /\ batch \in Seq(Members) /\ last \in Nat /\ full \in BOOLEAN
          /\ \A d \in owed' : d \in Eligible(held, rs)
                             /\ (d[1] \in Entries(batch) \/ (full /\ d[1] > last))
      BY <2>2, <2>3, <2>6, <2>7
    <3>. HIDE DEF rs
    <3>2. /\ Walk(rs, batch, last, full, held) \in ScanStates
          /\ Serves(Walk(rs, batch, last, full, held), owed')
          /\ Walk(rs, batch, last, full, held) # Waiting =>
               Walk(rs, batch, last, full, held).rules = rs
          /\ Walk(rs, batch, last, full, held).stage = "adding" =>
               Walk(rs, batch, last, full, held).adds \subseteq TargetsOf(rs)
      BY ONLY <3>1, WalkServes, ZenonT(60)
    <3>. QED  BY ONLY <3>2 DEF rs, v
  <2>. HIDE DEF v
  <2>9. v.stage = "adding" => v # Waiting
    BY <1>0
  <2>. QED  BY <1>0, <1>1, <1>5, <2>1, <2>2, <2>8, <2>9
\* After a role was given, or not.
<1>6. ASSUME NEW r \in scan.adds, scan.stage = "adding", failures' \in 0 .. MaxFailures,
             granted' \subseteq granted \cup {r}, scan' = AfterAdd(r, held'),
             owed' \subseteq owed, owed' \subseteq Members \X Roles,
             \A d \in owed' : d \in Eligible(held', scan.rules)
                              /\ d # <<Head(scan.page), r>>
      PROVE  Fine
  <2>. DEFINE v == AfterAdd(r, held')
  <2>1. /\ v \in ScanStates /\ Serves(v, owed')
        /\ v # Waiting => v.rules = scan.rules
        /\ v.stage = "adding" => v.adds \subseteq TargetsOf(scan.rules) \cup scan.adds
    BY <1>6, AfterAddServes
  <2>2. scan' = v
    BY <1>6
  <2>. HIDE DEF v
  <2>3. v.stage = "adding" => v # Waiting
    BY <1>0
  <2>4. scan # Waiting
    BY <1>0, <1>6
  <2>. QED  BY <1>6, <2>1, <2>2, <2>3, <2>4
<1>7. ASSUME NEW r \in Roles, AddRole(r), StillOwed({})
      PROVE  Fine
  <2>. DEFINE m == Head(scan.page)
  <2>1. /\ scan.stage = "adding" /\ r \in scan.adds /\ m \in DOMAIN held
        /\ held' = [held EXCEPT ![m] = held[m] \cup {r}]
        /\ scan' = AfterAdd(r, held') /\ granted' = granted \cup {r}
        /\ UNCHANGED failures
    BY <1>7 DEF AddRole, CanAdd
  <2>2. \A d \in owed' : d \in owed /\ d \in Eligible(held', scan.rules)
    BY <1>7, OwedShrinks
  <2>3. scan.rules \in Configs
    BY <1>0, <2>1, ScanTypes
  <2>4. ASSUME NEW d \in owed', d = <<m, r>>  PROVE FALSE
    <3>1. d[1] = m /\ d[2] = r
      BY <2>4
    <3>2. r \in RolesToAdd(held'[m], scan.rules)
      BY <2>2, <2>3, <3>1, EligibleTypes
    <3>3. r \notin held'[m]
      BY <3>2 DEF RolesToAdd
    <3>. HIDE DEF m
    <3>. QED  BY <2>1, <3>3
  <2>. QED  BY <1>0, <1>1, <1>6, <1>7, <2>1, <2>2, <2>4
<1>8. ASSUME NEW r \in Roles, AddFails(r), StillOwed({<<Head(scan.page), r>>})
      PROVE  Fine
  <2>1. /\ scan.stage = "adding" /\ r \in scan.adds
        /\ held' = held /\ scan' = AfterAdd(r, held) /\ granted' = granted
    BY <1>8 DEF AddFails, world
  <2>2. failures' \in 0 .. MaxFailures
    BY <1>0, <1>8 DEF AddFails
  <2>3. \A d \in owed' : /\ d \in owed /\ d \in Eligible(held', scan.rules)
                         /\ d # <<Head(scan.page), r>>
    BY <1>8, OwedShrinks
  <2>. HIDE DEF Fine
  <2>. QED  BY <1>1, <1>6, <1>8, <2>1, <2>2, <2>3
<1>9. CASE ListFails /\ StillOwed(owed)
  <2>1. /\ failures < MaxFailures /\ failures' = failures + 1
        /\ scan' = Waiting /\ UNCHANGED granted
    BY <1>9 DEF ListFails, AfterError
  <2>. QED  BY <1>2, <1>9, <2>1
<1>10. CASE Crash /\ StillOwed(owed)
  BY <1>2, <1>10 DEF Crash
<1>11. Fine
  <2>. HIDE DEF Fine
  <2>1. CASE ScanStep
    BY <1>7, <1>8, <2>1, <1>4, <1>5, <1>9 DEF ScanStep, Fine
  <2>2. \/ SettingsStep /\ StillOwed({}) /\ UNCHANGED <<scan, failures, granted>>
        \/ ScanStep
        \/ Crash /\ StillOwed(owed)
    BY DEF Next
  <2>. QED  BY <1>3, <1>10, <2>1, <2>2 DEF Fine
<1>. QED  BY <1>11 DEF Fine


\* What is read, given or written has been vouched for.
LEMMA VouchedNext == SyncInv /\ Next => AllVouched'
<1>. SUFFICES ASSUME SyncInv, Next  PROVE AllVouched'
  OBVIOUS
<1>1. vouched \subseteq vouched'
  BY MemoryGrows DEF Next
<1>2. /\ granted \subseteq vouched /\ TargetsOf(settings.rules) \subseteq vouched
      /\ scan # Waiting => TargetsOf(scan.rules) \subseteq vouched
      /\ scan.stage = "adding" => scan.adds \subseteq vouched
  BY DEF SyncInv, AllVouched, GrantsVouched
<1>3. TargetsOf(settings'.rules) \subseteq vouched
  <2>1. CASE settings' = settings
    BY <1>2, <2>1
  <2>2. CASE \E u \in Users :
               \A i \in 1 .. Len(settings'.rules) : Judged(u, settings'.rules[i])
    BY <2>2 DEF Judged, TargetsOf
  <2>. QED  BY <2>1, <2>2, SaveStep
<1>. DEFINE old == IF scan.stage = "adding" THEN scan.adds ELSE {}
<1>4. /\ scan' # Waiting =>
           scan'.rules = settings.rules \/ (scan # Waiting /\ scan'.rules = scan.rules)
      /\ scan'.stage = "adding" => scan'.adds \subseteq TargetsOf(scan'.rules) \cup old
      /\ granted' \subseteq granted \cup old
      /\ scan' \in ScanStates
  BY ScanMoves
<1>5. old \subseteq vouched
  BY <1>2
<1>. HIDE DEF old
<1>6. scan' # Waiting => TargetsOf(scan'.rules) \subseteq vouched
  BY <1>2, <1>4
<1>7. scan'.stage = "adding" => scan' # Waiting
  BY <1>4, ScanTypes
<1>8. granted' \subseteq vouched'
  BY <1>1, <1>2, <1>4, <1>5
<1>9. TargetsOf(settings'.rules) \subseteq vouched'
  BY <1>1, <1>3
<1>10. scan'.stage = "adding" => scan'.adds \subseteq vouched'
  BY <1>1, <1>4, <1>5, <1>6, <1>7
<1>11. scan' # Waiting => TargetsOf(scan'.rules) \subseteq vouched'
  BY <1>1, <1>6
<1>. QED  BY <1>8, <1>9, <1>10, <1>11 DEF AllVouched, GrantsVouched

\* Nothing is in force or owed at first.
LEMMA SyncInvInit == Init => SyncInv
<1>. SUFFICES ASSUME Init  PROVE SyncInv
  OBVIOUS
<1>1. /\ held \in [Members -> SUBSET Roles] /\ roles = Roles /\ settings = Default
      /\ saving = [u \in Users |-> NoSave] /\ seen = [u \in Users |-> Nothing]
      /\ vouched = {} /\ changes = 0 /\ saves = 0
      /\ scan = Waiting /\ failures = 0 /\ owed = {} /\ granted = {}
  BY DEF Init, SettingsInit
<1>2. /\ 0 \in 0 .. MaxChanges /\ 0 \in 0 .. MaxSaves /\ 0 \in 0 .. MaxFailures
  BY BoundAssumption, PageAssumption
<1>3. NoSave.stage = "none" /\ Waiting.stage = "waiting"
  BY DEF NoSave, Waiting
<1>4. Nothing \in [admin : BOOLEAN, roles : SUBSET Roles, may : SUBSET Roles]
  BY DEF Nothing
<1>5. TypeOK
  BY <1>1, <1>2, <1>4, DefaultTypes DEF TypeOK
<1>6. SyncTypeOK
  BY <1>1, <1>2 DEF SyncTypeOK
<1>7. Noted /\ JudgedSoFar
  BY <1>1, <1>3 DEF Noted, JudgedSoFar
<1>8. AllVouched
  BY <1>1, <1>3, DefaultTypes DEF AllVouched, GrantsVouched
<1>9. Serves(scan, owed)
  BY <1>1, <1>3 DEF Serves
<1>. QED  BY <1>5, <1>6, <1>7, <1>8, <1>9 DEF SyncInv

\* The invariant of a step.
LEMMA SyncInvNext == SyncInv /\ [Next]_vars => SyncInv'
<1>. SUFFICES ASSUME SyncInv, [Next]_vars  PROVE SyncInv'
  OBVIOUS
<1>1. CASE Next
  <2>1. TypeOK' /\ JudgedSoFar' /\ AllVouched'
    BY <1>1, SettingsTypeNext, JudgedNext, VouchedNext
  <2>2. Noted'
    BY <1>1, NotedNext DEF Next
  <2>3. /\ scan' \in ScanStates /\ failures' \in 0 .. MaxFailures
        /\ owed' \subseteq Members \X Roles /\ Serves(scan', owed')
        /\ granted' \subseteq Roles
    <3>1. /\ granted' \subseteq granted \cup IF scan.stage = "adding" THEN scan.adds ELSE {}
          /\ scan' \in ScanStates /\ failures' \in 0 .. MaxFailures
          /\ owed' \subseteq Members \X Roles /\ Serves(scan', owed')
      BY <1>1, ScanMoves
    <3>2. scan \in ScanStates /\ granted \subseteq Roles
      BY DEF SyncInv, SyncTypeOK, ScanStates
    <3>. QED  BY <3>1, <3>2, ScanTypes
  <2>. QED  BY <2>1, <2>2, <2>3 DEF SyncInv, SyncTypeOK, ScanStates, Serves
<1>2. CASE UNCHANGED vars
  <2>1. UNCHANGED <<held, roles, changes, settings, saving, saves, seen, vouched,
                    scan, failures, owed, granted>>
    BY <1>2 DEF vars, settingsVars, world, syncVars
  <2>2. TypeOK' /\ SyncTypeOK'
    BY <2>1 DEF SyncInv, TypeOK, SyncTypeOK
  <2>3. Noted'
    <3>1. \A u, p : Has(u, p)' <=> Has(u, p)
      BY <2>1 DEF Has
    <3>2. \A u : Highest(u)' = Highest(u)
      BY <2>1 DEF Highest
    <3>3. \A u, r : CanGrant(u, r)' <=> CanGrant(u, r)
      BY <2>1, <3>1, <3>2 DEF CanGrant
    <3>4. \A u : Grantable(u)' = Grantable(u)
      BY <3>3 DEF Grantable
    <3>. QED  BY <2>1, <3>1, <3>4 DEF SyncInv, Noted
  <2>4. JudgedSoFar' /\ AllVouched' /\ Serves(scan, owed)'
    BY <2>1 DEF SyncInv, JudgedSoFar, JudgedUpTo, Judged, AllVouched, GrantsVouched, Serves
  <2>. QED  BY <2>2, <2>3, <2>4 DEF SyncInv
<1>. QED  BY <1>1, <1>2

\* What the invariant says about states and steps.
LEMMA SyncInvSays ==
  /\ SyncInv => GrantsVouched /\ StayersServed
  /\ SyncInv /\ [Next]_vars =>
       [settings' # settings =>
          \E u \in Users :
            /\ saving[u] # NoSave /\ saving'[u] = NoSave
            /\ settings' = saving[u].body
            /\ seen[u].admin
            /\ UNION {RefersTo(settings'.rules[i]) : i \in 1 .. Len(settings'.rules)}
                 \subseteq seen[u].roles
            /\ TargetsOf(settings'.rules) \subseteq seen[u].may]_settingsVars
<1>1. SyncInv => GrantsVouched /\ StayersServed
  BY DEF SyncInv, AllVouched, StayersServed, Serves
<1>2. ASSUME SyncInv, [Next]_vars, settings' # settings
      PROVE  \E u \in Users :
               /\ saving[u] # NoSave /\ saving'[u] = NoSave
               /\ settings' = saving[u].body
               /\ seen[u].admin
               /\ UNION {RefersTo(settings'.rules[i]) : i \in 1 .. Len(settings'.rules)}
                    \subseteq seen[u].roles
               /\ TargetsOf(settings'.rules) \subseteq seen[u].may
  <2>1. Next
    BY <1>2 DEF vars, settingsVars
  <2>2. PICK u \in Users :
          /\ saving[u] # NoSave /\ saving'[u] = NoSave
          /\ settings' = saving[u].body /\ seen[u].admin
          /\ \A i \in 1 .. Len(settings'.rules) : Judged(u, settings'.rules[i])
    BY <1>2, <2>1, SaveStep
  <2>3. UNION {RefersTo(settings'.rules[i]) : i \in 1 .. Len(settings'.rules)}
          \subseteq seen[u].roles
    BY <2>2 DEF Judged
  <2>4. TargetsOf(settings'.rules) \subseteq seen[u].may
    BY <2>2 DEF Judged, TargetsOf
  <2>. QED  BY <2>2, <2>3, <2>4
<1>. QED  BY <1>1, <1>2

\* The bot gives nobody a role, and no rule is in force that asks for one, that
\* some administrator could not have given while asking for it: for any roles,
\* any hierarchy and any changes of them while saves wait and scans run
\* (invalidReference, canGrantRole, run).
THEOREM GrantsAreVouched == Spec => []GrantsVouched
BY SyncInvInit, SyncInvNext, SyncInvSays, PTL DEF Spec

\* What a save writes was judged rule by rule, and its author was an
\* administrator, some time during this very request, however many awaits lie
\* between (putSettings, checkAccess, invalidReference).
THEOREM StoredSettingsWereChecked == Spec => StoredWasChecked
BY SyncInvInit, SyncInvNext, SyncInvSays, PTL DEF Spec, StoredWasChecked

\* A scan leaves out nobody who was eligible all the time and whose requests
\* succeeded, for any guild and size of page: pages go by id, so that members
\* who come and go between two of them displace nobody (run, PAGE_SIZE).
THEOREM StayersAreServed == Spec => []StayersServed
BY SyncInvInit, SyncInvNext, SyncInvSays, PTL DEF Spec


-----------------------------------------------------------------------------
(* The page of a guild.  Answers come in any order, but each carries the      *)
(* mounting and the effect it was asked in.                                  *)

\* Settings, stored or on their way, are of the guild whose page they belong to,
\* unless the history went to it from another guild's; and if it did not go to
\* the page on screen, whatever belongs to this mounting belongs to this guild.
AtHome ==
  /\ SettingsStayHome
  /\ page \in Guilds \ jumpedTo =>
       /\ form # NoForm => form.from = page
       /\ \A r \in requests : r.mount = mount => r.guild = page
  /\ \A r \in requests :
       r.guild \notin jumpedTo /\ r.kind \in {"get", "put"} /\ r.settings # NoForm
         => r.settings.from = r.guild

\* A later mounting or effect has no requests yet; settings that are to be
\* saved or were answered are there.
InOrderOfEffects ==
  \A r \in requests :
    /\ r.mount <= mount /\ r.effect <= effect
    /\ r.kind = "put" \/ (r.kind = "get" /\ r.served) => r.settings # NoForm

\* What the latest effect lists is the guild's, and without what was cancelled
\* before; what was cancelled is gone.
ListsAreCurrent ==
  /\ ListIsCurrent
  /\ cancelled \cap booked = {}
  /\ \A r \in requests :
       /\ r.kind = "list" /\ r.effect = effect /\ page \in Guilds => r.guild = page
       /\ r.kind = "list" /\ r.served => \A i \in r.ids : GuildOf[i] = r.guild
       /\ r.kind = "list" /\ r.served /\ r.effect = effect => r.ids \cap cancelled = {}
       /\ r.kind = "cancel" /\ r.served =>
            r.ids \cap booked = {} /\ \A i \in r.ids : GuildOf[i] = r.guild

PageInv == PageTypeOK /\ AtHome /\ InOrderOfEffects /\ ListsAreCurrent

\* It holds before any page is open.
LEMMA PageInvInit == PageInit => PageInv
<1>. SUFFICES ASSUME PageInit  PROVE PageInv
  OBVIOUS
<1>1. 0 \in 0 .. MaxRequests
  BY PageOfGuildAssumption
<1>2. /\ stored \in [Guilds -> Settings]
      /\ \A g \in Guilds : stored[g].from = g /\ stored[g].channel = NoChannel
  BY DEF PageInit, Settings
<1>3. PageTypeOK
  BY <1>1, <1>2 DEF PageInit, PageTypeOK
<1>4. AtHome
  BY <1>2 DEF PageInit, AtHome, SettingsStayHome
<1>5. InOrderOfEffects /\ ListsAreCurrent
  BY DEF PageInit, InOrderOfEffects, ListsAreCurrent, ListIsCurrent
<1>. QED  BY <1>3, <1>4, <1>5 DEF PageInv

\* The fields of what is on its way.
LEMMA RequestTypes ==
  ASSUME PageTypeOK, NEW r \in requests
  PROVE  /\ r \in Requests /\ r.kind \in {"get", "put", "list", "cancel"}
         /\ r.guild \in Guilds /\ r.mount \in Nat /\ r.effect \in Nat
         /\ r.served \in BOOLEAN /\ r.ids \subseteq Ids
         /\ r.settings # NoForm => r.settings \in Settings
<1>1. r \in Requests
  BY DEF PageTypeOK
<1>. QED  BY <1>1 DEF Requests

\* A new request is one of this mounting and effect.
LEMMA NewRequest ==
  ASSUME NEW kind \in {"get", "put", "list", "cancel"}, NEW g \in Guilds,
         mount' \in Nat, effect' \in Nat
  PROVE  LET q == Request(kind, g)
         IN  /\ q \in Requests /\ q.kind = kind /\ q.guild = g
             /\ q.mount = mount' /\ q.effect = effect'
             /\ ~ q.served /\ q.settings = NoForm /\ q.ids = {}
BY DEF Request, Requests

\* The card is not its own list, and forms are told from none.
LEMMA PageSets ==
  /\ \A s \in Settings :
       s # NoForm /\ s.from \in Guilds /\ s.channel \in Guilds \cup {NoChannel}
  /\ MaxRequests \in Nat /\ GuildOf \in [Ids -> Guilds]
<1>1. \A s \in Settings : s.from \in Guilds /\ s.channel \in Guilds \cup {NoChannel}
  BY DEF Settings
<1>2. \A s \in Settings : s # NoForm
  BY DEF Settings, NoForm
<1>. QED  BY <1>1, <1>2, PageOfGuildAssumption


\* The page of a guild opens, from the list or from another guild's: what is
\* on its way is of an earlier mounting or, after a jump, of an earlier effect.
LEMMA PageOpens ==
  ASSUME PageInv, NEW g \in Guilds, Open(g) \/ JumpTo(g)
  PROVE  PageInv'
<1>. USE DEF PageInv
<1>. DEFINE get == Request("get", g)
            list == Request("list", g)
<1>1. /\ page' = g /\ effect' = effect + 1 /\ loading' = TRUE /\ sent' = sent + 2
      /\ sent + 2 <= MaxRequests /\ requests' = requests \cup {get, list}
      /\ UNCHANGED <<stored, booked, cancelled>>
      /\ \/ /\ mount' = mount + 1 /\ form' = NoForm /\ isSaving' = FALSE /\ shown' = {}
            /\ jumpedTo' = jumpedTo
         \/ /\ jumpedTo' = jumpedTo \cup {g}
            /\ UNCHANGED <<mount, form, isSaving, shown>>
  BY DEF Open, JumpTo, LoadPage
<1>2. mount \in Nat /\ effect \in Nat /\ mount' \in Nat /\ effect' \in Nat
      /\ mount <= mount' /\ effect < effect' /\ mount' <= mount'
  BY <1>1 DEF PageTypeOK
<1>3. \A q \in {get, list} :
        /\ q \in Requests /\ q.kind \in {"get", "list"} /\ q.guild = g
        /\ q.mount = mount' /\ q.effect = effect'
        /\ ~ q.served /\ q.settings = NoForm /\ q.ids = {}
  BY <1>2, NewRequest
<1>. HIDE DEF get, list
<1>4. \A q \in requests' :
        \/ q \in requests /\ q.effect # effect'
        \/ /\ q \in Requests /\ q.kind \in {"get", "list"} /\ q.guild = g
           /\ q.mount = mount' /\ q.effect = effect'
           /\ ~ q.served /\ q.settings = NoForm /\ q.ids = {}
  <2>1. \A q \in requests : q.effect \in Nat /\ q.effect <= effect
    BY RequestTypes DEF InOrderOfEffects
  <2>2. \A q \in requests : q.effect # effect'
    BY ONLY <1>2, <2>1
  <2>. QED  BY <1>1, <1>3, <2>2
<1>5. \A q \in requests : q.mount \in Nat /\ q.effect \in Nat
                          /\ q.mount <= mount' /\ q.effect <= effect'
                          /\ (mount' = mount + 1 => q.mount # mount')
  <2>1. \A q \in requests : q.mount \in Nat /\ q.effect \in Nat
                            /\ q.mount <= mount /\ q.effect <= effect
    BY RequestTypes DEF InOrderOfEffects
  <2>. QED  BY ONLY <1>2, <2>1
<1>6. PageTypeOK'
  <2>1. sent' \in 0 .. MaxRequests
    BY <1>1, PageSets DEF PageTypeOK
  <2>2. requests' \subseteq Requests
    BY <1>4 DEF PageTypeOK
  <2>. QED  BY <1>1, <1>2, <2>1, <2>2 DEF PageTypeOK
<1>7. AtHome'
  <2>1. SettingsStayHome'
    BY <1>1 DEF AtHome, SettingsStayHome
  <2>2. \A q \in requests' :
          q.guild \notin jumpedTo' /\ q.kind \in {"get", "put"} /\ q.settings # NoForm
            => q.settings.from = q.guild
    BY <1>1, <1>4 DEF AtHome
  <2>3. CASE g \in jumpedTo'
    BY <1>1, <2>1, <2>2, <2>3 DEF AtHome
  <2>4. CASE g \notin jumpedTo'
    <3>1. mount' = mount + 1 /\ form' = NoForm
      BY <1>1, <2>4
    <3>2. \A q \in requests' : q.mount = mount' => q.guild = g
      BY <1>4, <1>5, <3>1
    <3>. QED  BY <1>1, <2>1, <2>2, <3>1, <3>2 DEF AtHome
  <2>. QED  BY <2>3, <2>4
<1>8. InOrderOfEffects'
  <2>1. \A q \in requests' : q.mount <= mount' /\ q.effect <= effect'
    BY <1>2, <1>4, <1>5
  <2>2. \A q \in requests' : q.kind = "put" \/ (q.kind = "get" /\ q.served)
                               => q.settings # NoForm
    BY <1>4 DEF InOrderOfEffects
  <2>. QED  BY <2>1, <2>2 DEF InOrderOfEffects
<1>9. ListsAreCurrent'
  <2>1. ListIsCurrent'
    <3>1. \A i \in Ids \ booked : \A q \in requests' :
            q.kind = "cancel" /\ q.served /\ i \in q.ids => GuildOf[i] = q.guild
      BY <1>4 DEF ListsAreCurrent
    <3>. QED  BY <1>1, <3>1 DEF ListIsCurrent
  <2>2. \A q \in requests' :
          /\ q.kind = "list" /\ q.effect = effect' => q.guild = g
          /\ q.kind = "list" /\ q.served => \A i \in q.ids : GuildOf[i] = q.guild
          /\ q.kind = "list" /\ q.served /\ q.effect = effect'
               => q.ids \cap cancelled = {}
          /\ q.kind = "cancel" /\ q.served =>
               q.ids \cap booked = {} /\ \A i \in q.ids : GuildOf[i] = q.guild
    BY <1>4 DEF ListsAreCurrent
  <2>. QED  BY <1>1, <2>1, <2>2 DEF ListsAreCurrent
<1>. QED  BY <1>6, <1>7, <1>8, <1>9

\* A request is sent from the page on screen.
LEMMA PageSends ==
  ASSUME PageInv, Save \/ \E i \in Ids : Cancel(i)
  PROVE  PageInv'
<1>. USE DEF PageInv
<1>0. page \in Guilds /\ UNCHANGED <<mount, effect>> /\ mount \in Nat /\ effect \in Nat
  BY DEF Save, Cancel, PageTypeOK
<1>1. PICK q \in Requests :
        /\ q.guild = page /\ q.mount = mount /\ q.effect = effect /\ ~ q.served
        /\ requests' = requests \cup {q}
        /\ \/ q.kind = "put" /\ q.settings = form /\ form # NoForm
           \/ q.kind = "cancel" /\ q.settings = NoForm
  <2>1. CASE Save
    <3>. DEFINE p == Request("put", page)
                q == [p EXCEPT !.settings = form]
    <3>1. /\ p \in Requests /\ p.kind = "put" /\ p.guild = page
          /\ p.mount = mount /\ p.effect = effect /\ ~ p.served
      BY <1>0, NewRequest
    <3>2. form \in Settings /\ form # NoForm /\ requests' = requests \cup {q}
      BY <2>1 DEF Save, Send, PageTypeOK
    <3>. HIDE DEF p
    <3>3. /\ q \in Requests /\ q.kind = "put" /\ q.guild = page
          /\ q.mount = mount /\ q.effect = effect /\ ~ q.served /\ q.settings = form
      BY <3>1, <3>2 DEF Requests
    <3>. HIDE DEF q
    <3>. QED  BY <3>2, <3>3
  <2>2. ASSUME NEW i \in Ids, Cancel(i)
        PROVE  \E q \in Requests :
                 /\ q.guild = page /\ q.mount = mount /\ q.effect = effect /\ ~ q.served
                 /\ requests' = requests \cup {q}
                 /\ q.kind = "cancel" /\ q.settings = NoForm
    <3>. DEFINE p == Request("cancel", page)
                q == [p EXCEPT !.ids = {i}]
    <3>1. /\ p \in Requests /\ p.kind = "cancel" /\ p.guild = page
          /\ p.mount = mount /\ p.effect = effect /\ ~ p.served /\ p.settings = NoForm
      BY <1>0, NewRequest
    <3>2. requests' = requests \cup {q}
      BY <2>2 DEF Cancel, Send
    <3>. HIDE DEF p
    <3>3. /\ q \in Requests /\ q.kind = "cancel" /\ q.guild = page
          /\ q.mount = mount /\ q.effect = effect /\ ~ q.served /\ q.settings = NoForm
      BY <3>1 DEF Requests
    <3>. HIDE DEF q
    <3>. QED  BY <3>2, <3>3
  <2>. QED  BY <2>1, <2>2
<1>2. /\ UNCHANGED <<page, form, shown, loading, stored, booked, jumpedTo, cancelled>>
      /\ isSaving' \in BOOLEAN /\ sent < MaxRequests /\ sent' = sent + 1
  BY DEF Save, Cancel, Send, PageTypeOK
<1>3. PageTypeOK'
  <2>1. sent' \in 0 .. MaxRequests
    BY <1>2, PageSets DEF PageTypeOK
  <2>. QED  BY <1>0, <1>1, <1>2, <2>1 DEF PageTypeOK
<1>4. AtHome'
  BY <1>0, <1>1, <1>2 DEF AtHome, SettingsStayHome
<1>5. InOrderOfEffects'
  <2>1. \A r \in requests' : r.mount <= mount /\ r.effect <= effect
    BY <1>0, <1>1 DEF InOrderOfEffects
  <2>. QED  BY <1>0, <1>1, <2>1 DEF InOrderOfEffects
<1>6. ListsAreCurrent'
  BY <1>0, <1>1, <1>2 DEF ListsAreCurrent, ListIsCurrent
<1>. QED  BY <1>3, <1>4, <1>5, <1>6


\* The server does what a request says, whenever it comes to it.
LEMMA PageServes ==
  ASSUME PageInv, NEW r \in requests, Served(r)
  PROVE  PageInv'
<1>. USE DEF PageInv
<1>0. /\ ~ r.served
      /\ UNCHANGED <<page, mount, effect, form, isSaving, shown, loading, sent,
                     jumpedTo, cancelled>>
  BY DEF Served
<1>1. /\ r \in Requests /\ r.guild \in Guilds /\ r.ids \subseteq Ids
      /\ r.mount <= mount /\ r.effect <= effect
  BY RequestTypes DEF InOrderOfEffects
<1>2. ASSUME NEW s \in Settings \cup {NoForm}, NEW is \in SUBSET Ids, Serve(r, s, is)
      PROVE  \E a \in Requests :
               /\ requests' = (requests \ {r}) \cup {a} /\ a.served
               /\ a.kind = r.kind /\ a.guild = r.guild /\ a.mount = r.mount
               /\ a.effect = r.effect /\ a.settings = s /\ a.ids = is
  <2>. DEFINE a == [r EXCEPT !.served = TRUE, !.settings = s, !.ids = is]
  <2>1. /\ a \in Requests /\ a.served /\ a.kind = r.kind /\ a.guild = r.guild
        /\ a.mount = r.mount /\ a.effect = r.effect /\ a.settings = s /\ a.ids = is
    BY <1>1 DEF Requests
  <2>2. requests' = (requests \ {r}) \cup {a}
    BY <1>2 DEF Serve
  <2>. HIDE DEF a
  <2>. QED  BY <2>1, <2>2
<1>3. \E a \in Requests :
        /\ requests' = (requests \ {r}) \cup {a} /\ a.served
        /\ a.kind = r.kind /\ a.guild = r.guild /\ a.mount = r.mount
        /\ a.effect = r.effect
        /\ \/ /\ r.kind = "get" /\ a.settings = stored[r.guild]
              /\ UNCHANGED <<stored, booked>>
           \/ /\ r.kind = "list" /\ a.ids = {i \in booked : GuildOf[i] = r.guild}
              /\ UNCHANGED <<stored, booked>>
           \/ /\ r.kind = "put" /\ a.settings = r.settings /\ UNCHANGED booked
              /\ r.settings \in Settings /\ ValidReference(r.guild, r.settings)
              /\ stored' = [stored EXCEPT ![r.guild] = r.settings]
           \/ /\ r.kind = "cancel" /\ a.ids = Matching(r) /\ UNCHANGED stored
              /\ booked' = booked \ Matching(r)
  <2>1. CASE r.kind = "get" /\ Serve(r, stored[r.guild], {}) /\ UNCHANGED <<stored, booked>>
    <3>1. stored[r.guild] \in Settings \cup {NoForm} /\ {} \in SUBSET Ids
      BY <1>1 DEF PageTypeOK
    <3>. QED  BY <1>2, <2>1, <3>1
  <2>2. CASE r.kind = "list" /\ Serve(r, NoForm, {i \in booked : GuildOf[i] = r.guild})
             /\ UNCHANGED <<stored, booked>>
    <3>1. {i \in booked : GuildOf[i] = r.guild} \in SUBSET Ids
      BY DEF PageTypeOK
    <3>. QED  BY <1>2, <2>2, <3>1
  <2>3. CASE ServePut(r)
    <3>1. r.settings \in Settings
      BY <2>3, RequestTypes DEF ServePut, InOrderOfEffects
    <3>. QED  BY <1>2, <2>3, <3>1 DEF ServePut
  <2>4. CASE ServeCancel(r)
    <3>1. Matching(r) \in SUBSET Ids
      BY <1>1 DEF Matching
    <3>. QED  BY <1>2, <2>4, <3>1 DEF ServeCancel
  <2>. QED  BY <2>1, <2>2, <2>3, <2>4 DEF Served, ServeRead
<1>4. PICK a \in Requests :
        /\ requests' = (requests \ {r}) \cup {a} /\ a.served
        /\ a.kind = r.kind /\ a.guild = r.guild /\ a.mount = r.mount
        /\ a.effect = r.effect
        /\ \/ /\ r.kind = "get" /\ a.settings = stored[r.guild]
              /\ UNCHANGED <<stored, booked>>
           \/ /\ r.kind = "list" /\ a.ids = {i \in booked : GuildOf[i] = r.guild}
              /\ UNCHANGED <<stored, booked>>
           \/ /\ r.kind = "put" /\ a.settings = r.settings /\ UNCHANGED booked
              /\ r.settings \in Settings /\ ValidReference(r.guild, r.settings)
              /\ stored' = [stored EXCEPT ![r.guild] = r.settings]
           \/ /\ r.kind = "cancel" /\ a.ids = Matching(r) /\ UNCHANGED stored
              /\ booked' = booked \ Matching(r)
  BY <1>3
<1>5. stored \in [Guilds -> Settings] /\ booked \subseteq Ids
  BY DEF PageTypeOK
<1>6. PageTypeOK'
  <2>1. stored' \in [Guilds -> Settings] /\ booked' \subseteq Ids
    BY <1>1, <1>4, <1>5
  <2>. QED  BY <1>0, <1>4, <2>1 DEF PageTypeOK
<1>7. AtHome'
  <2>1. stored[r.guild].from = r.guild \/ r.guild \in jumpedTo
    BY <1>1 DEF AtHome, SettingsStayHome
  <2>2. SettingsStayHome'
    <3>1. CASE r.kind = "put"
      <4>1. stored' = [stored EXCEPT ![r.guild] = r.settings] /\ r.settings # NoForm
        BY <1>4, <3>1, PageSets
      <4>2. /\ r.settings.channel \in {NoChannel, r.guild}
            /\ r.settings.from = r.guild \/ r.guild \in jumpedTo
        BY <1>4, <3>1, <4>1 DEF AtHome, ValidReference
      <4>. QED  BY <1>0, <1>5, <4>1, <4>2 DEF AtHome, SettingsStayHome
    <3>2. CASE r.kind # "put"
      BY <1>0, <1>4, <3>2 DEF AtHome, SettingsStayHome
    <3>. QED  BY <3>1, <3>2
  <2>3. a.guild \notin jumpedTo /\ a.kind \in {"get", "put"} /\ a.settings # NoForm
          => a.settings.from = a.guild
    BY <1>1, <1>4, <2>1 DEF AtHome
  <2>. QED  BY <1>0, <1>4, <2>2, <2>3 DEF AtHome
<1>8. InOrderOfEffects'
  <2>1. a.kind \in {"get", "put"} => a.settings # NoForm
    BY <1>1, <1>4, <1>5, PageSets
  <2>. QED  BY <1>0, <1>1, <1>4, <2>1 DEF InOrderOfEffects
<1>9. ListsAreCurrent'
  <2>1. booked' \subseteq booked
    BY <1>4
  <2>2. r.kind = "list" => /\ booked' = booked /\ a.ids \subseteq booked
                           /\ \A i \in a.ids : GuildOf[i] = a.guild
    BY <1>4
  <2>3. r.kind = "cancel" => a.ids \cap booked' = {}
                             /\ \A i \in a.ids : GuildOf[i] = a.guild
    BY <1>4 DEF Matching
  <2>4. \A i \in Ids : \A q \in requests' :
          q.kind = "cancel" /\ q.served /\ i \in q.ids => GuildOf[i] = q.guild
    BY <1>4, <2>3 DEF ListsAreCurrent
  <2>5. ListIsCurrent'
    BY <1>0, <2>4 DEF ListsAreCurrent, ListIsCurrent
  <2>6. \A q \in requests' :
          /\ q.kind = "list" /\ q.effect = effect /\ page \in Guilds => q.guild = page
          /\ q.kind = "list" /\ q.served => \A i \in q.ids : GuildOf[i] = q.guild
          /\ q.kind = "list" /\ q.served /\ q.effect = effect
               => q.ids \cap cancelled = {}
          /\ q.kind = "cancel" /\ q.served =>
               q.ids \cap booked' = {} /\ \A i \in q.ids : GuildOf[i] = q.guild
    BY <1>4, <2>1, <2>2, <2>3 DEF ListsAreCurrent
  <2>. QED  BY <1>0, <2>1, <2>5, <2>6 DEF ListsAreCurrent
<1>. QED  BY <1>6, <1>7, <1>8, <1>9

\* An answer is taken by the mounting it belongs to, a list by its effect.
LEMMA PageAnswers ==
  ASSUME PageInv, NEW r \in requests, Answered(r)
  PROVE  PageInv'
<1>. USE DEF PageInv
<1>0. UNCHANGED <<mount, page, stored, booked, jumpedTo>>
  BY DEF Answered
<1>1. PICK ok \in {FALSE, r.served} :
        AnswerSettings(r, ok) \/ AnswerList(r, ok) \/ AnswerCancel(r, ok)
  BY DEF Answered
<1>2. ok => r.served
  OBVIOUS
<1>3. CASE AnswerSettings(r, ok)
  <2>1. /\ r.kind \in {"get", "put"} /\ requests' \subseteq requests
        /\ \/ form' = form
           \/ page \in Guilds /\ r.mount = mount /\ r.served /\ form' = r.settings
        /\ isSaving' \in BOOLEAN
        /\ UNCHANGED <<effect, shown, loading, sent, cancelled>>
    BY <1>2, <1>3 DEF AnswerSettings, IsMounted, PageTypeOK
  <2>2. form' = form \/ (form' \in Settings /\ form' = r.settings /\ r.settings # NoForm
                         /\ page \in Guilds /\ r.mount = mount)
    BY <2>1, RequestTypes DEF InOrderOfEffects
  <2>3. PageTypeOK'
    BY <1>0, <2>1, <2>2 DEF PageTypeOK
  <2>4. AtHome'
    <3>1. page \in Guilds \ jumpedTo /\ form' # NoForm => form'.from = page
      BY <2>1, <2>2 DEF AtHome
    <3>. QED  BY <1>0, <2>1, <3>1 DEF AtHome, SettingsStayHome
  <2>5. InOrderOfEffects' /\ ListsAreCurrent'
    BY <1>0, <2>1 DEF InOrderOfEffects, ListsAreCurrent, ListIsCurrent
  <2>. QED  BY <2>3, <2>4, <2>5
<1>4. CASE AnswerList(r, ok)
  <2>1. /\ r.kind = "list" /\ requests' \subseteq requests
        /\ \/ UNCHANGED <<shown, loading>>
           \/ /\ page \in Guilds /\ r.effect = effect /\ loading' = FALSE
              /\ shown' = {} \/ (r.served /\ shown' = r.ids)
        /\ UNCHANGED <<effect, form, isSaving, sent, cancelled>>
    BY <1>2, <1>4 DEF AnswerList, IsLatest, IsMounted
  <2>2. shown' \subseteq Ids /\ loading' \in BOOLEAN
    BY <2>1, RequestTypes DEF PageTypeOK
  <2>3. PageTypeOK'
    BY <1>0, <2>1, <2>2 DEF PageTypeOK
  <2>4. AtHome' /\ InOrderOfEffects'
    BY <1>0, <2>1 DEF AtHome, SettingsStayHome, InOrderOfEffects
  <2>5. page \in Guilds /\ ~ loading' =>
          shown' \cap cancelled = {} /\ \A i \in shown' : GuildOf[i] = page
    BY <2>1 DEF ListsAreCurrent, ListIsCurrent
  <2>6. ListIsCurrent'
    BY <1>0, <2>1, <2>5 DEF ListsAreCurrent, ListIsCurrent
  <2>7. ListsAreCurrent'
    BY <1>0, <2>1, <2>6 DEF ListsAreCurrent
  <2>. QED  BY <2>3, <2>4, <2>7
<1>5. CASE AnswerCancel(r, ok) /\ ~ (ok /\ IsMounted(r))
  <2>1. /\ requests' \subseteq requests
        /\ UNCHANGED <<effect, loading, sent, cancelled, form, isSaving, shown>>
    BY <1>5 DEF AnswerCancel
  <2>2. PageTypeOK'
    BY <1>0, <2>1 DEF PageTypeOK
  <2>3. AtHome' /\ InOrderOfEffects'
    BY <1>0, <2>1 DEF AtHome, SettingsStayHome, InOrderOfEffects
  <2>4. ListIsCurrent'
    BY <1>0, <2>1 DEF ListsAreCurrent, ListIsCurrent
  <2>5. ListsAreCurrent'
    BY <1>0, <2>1, <2>4 DEF ListsAreCurrent
  <2>. QED  BY <2>2, <2>3, <2>5
<1>6. CASE AnswerCancel(r, ok) /\ ok /\ IsMounted(r)
  <2>. DEFINE q == Request("list", page)
  <2>1. /\ r.kind = "cancel" /\ r.served /\ page \in Guilds
        /\ effect' = effect + 1 /\ loading' = TRUE
        /\ sent < MaxRequests /\ sent' = sent + 1
        /\ requests' = (requests \ {r}) \cup {q}
        /\ cancelled' = cancelled \cup r.ids
        /\ UNCHANGED <<form, isSaving, shown>>
    BY <1>2, <1>6 DEF AnswerCancel, IsMounted
  <2>2. effect \in Nat /\ effect' \in Nat /\ mount' \in Nat /\ mount \in Nat
    BY <1>0, <2>1 DEF PageTypeOK
  <2>3. /\ q \in Requests /\ q.kind = "list" /\ q.guild = page /\ q.mount = mount
        /\ q.effect = effect' /\ ~ q.served /\ q.settings = NoForm /\ q.ids = {}
    BY <1>0, <2>1, <2>2, NewRequest
  <2>. HIDE DEF q
  <2>4. \A p \in requests : p.mount <= mount /\ p.effect <= effect' /\ p.effect # effect'
    <3>1. \A p \in requests : p.effect \in Nat /\ p.effect <= effect /\ p.mount <= mount
      BY RequestTypes DEF InOrderOfEffects
    <3>. QED  BY ONLY <2>1, <2>2, <3>1
  <2>5. PageTypeOK'
    <3>1. sent' \in 0 .. MaxRequests
      BY <2>1, PageSets DEF PageTypeOK
    <3>2. r.ids \subseteq Ids
      BY RequestTypes
    <3>3. cancelled' \subseteq Ids /\ requests' \subseteq Requests /\ loading' \in BOOLEAN
      BY <2>1, <2>3, <3>2 DEF PageTypeOK
    <3>. QED  BY <1>0, <2>1, <2>2, <3>1, <3>3 DEF PageTypeOK
  <2>6. AtHome'
    BY <1>0, <2>1, <2>3 DEF AtHome, SettingsStayHome
  <2>7. InOrderOfEffects'
    <3>1. q.mount <= mount /\ q.effect <= effect'
      BY <2>2, <2>3
    <3>. QED  BY <1>0, <2>1, <2>3, <2>4, <3>1 DEF InOrderOfEffects
  <2>8. ListsAreCurrent'
    <3>1. cancelled' \cap booked = {}
      BY <2>1 DEF ListsAreCurrent
    <3>2. ListIsCurrent'
      BY <1>0, <2>1, <2>3 DEF ListsAreCurrent, ListIsCurrent
    <3>3. \A p \in requests' :
            /\ p.kind = "list" /\ p.effect = effect' => p.guild = page
            /\ p.kind = "list" /\ p.served => \A i \in p.ids : GuildOf[i] = p.guild
            /\ ~ (p.kind = "list" /\ p.served /\ p.effect = effect')
            /\ p.kind = "cancel" /\ p.served =>
                 p.ids \cap booked = {} /\ \A i \in p.ids : GuildOf[i] = p.guild
      BY <2>1, <2>3, <2>4 DEF ListsAreCurrent
    <3>. QED  BY <1>0, <3>1, <3>2, <3>3 DEF ListsAreCurrent
  <2>. QED  BY <2>5, <2>6, <2>7, <2>8
<1>. QED  BY <1>1, <1>3, <1>4, <1>5, <1>6

\* The invariant of a step.
LEMMA PageInvNext == PageInv /\ [PageStep]_pageVars => PageInv'
<1>. SUFFICES ASSUME PageInv, [PageStep]_pageVars  PROVE PageInv'
  OBVIOUS
<1>1. CASE Close
  <2>1. /\ page' = GuildList
        /\ UNCHANGED <<mount, effect, form, isSaving, shown, loading, requests, sent,
                       stored, booked, jumpedTo, cancelled>>
    BY <1>1 DEF Close
  <2>2. GuildList \notin Guilds
    BY PageOfGuildAssumption
  <2>3. PageTypeOK' /\ InOrderOfEffects'
    BY <2>1 DEF PageInv, PageTypeOK, InOrderOfEffects
  <2>4. AtHome'
    BY <2>1, <2>2 DEF PageInv, AtHome, SettingsStayHome
  <2>5. ListIsCurrent'
    BY <2>1, <2>2 DEF PageInv, ListsAreCurrent, ListIsCurrent
  <2>6. ListsAreCurrent'
    BY <2>1, <2>2, <2>5 DEF PageInv, ListsAreCurrent
  <2>. QED  BY <2>3, <2>4, <2>6 DEF PageInv
<1>2. CASE Edit
  <2>0. PICK channel \in {NoChannel, page} : form' = [form EXCEPT !.channel = channel]
    BY <1>2 DEF Edit, Offered
  <2>1. /\ form # NoForm /\ page \in Guilds
        /\ UNCHANGED <<page, mount, effect, isSaving, shown, loading, requests, sent,
                       stored, booked, jumpedTo, cancelled>>
    BY <1>2 DEF Edit
  <2>2. form' \in Settings /\ form'.from = form.from
    BY <2>0, <2>1 DEF PageInv, PageTypeOK, Settings
  <2>3. PageTypeOK' /\ InOrderOfEffects'
    BY <2>1, <2>2 DEF PageInv, PageTypeOK, InOrderOfEffects
  <2>4. AtHome'
    BY <2>1, <2>2 DEF PageInv, AtHome, SettingsStayHome
  <2>5. ListsAreCurrent'
    BY <2>1 DEF PageInv, ListsAreCurrent, ListIsCurrent
  <2>. QED  BY <2>3, <2>4, <2>5 DEF PageInv
<1>3. CASE UNCHANGED pageVars
  <2>1. UNCHANGED <<page, mount, effect, form, isSaving, shown, loading, requests,
                    sent, stored, booked, jumpedTo, cancelled>>
    BY <1>3 DEF pageVars
  <2>2. PageTypeOK' /\ InOrderOfEffects'
    BY <2>1 DEF PageInv, PageTypeOK, InOrderOfEffects
  <2>3. AtHome' /\ ListsAreCurrent'
    BY <2>1 DEF PageInv, AtHome, SettingsStayHome, ListsAreCurrent, ListIsCurrent
  <2>. QED  BY <2>2, <2>3 DEF PageInv
<1>. QED  BY <1>1, <1>2, <1>3, PageOpens, PageSends, PageServes, PageAnswers DEF PageStep

\* A guild has no other guild's channel, whatever the card held when it was
\* saved, and has another's texts only if the history went to its page from
\* another guild's: in whatever order requests are served and answered and the
\* pages of any number of guilds are opened and left (SettingsCard, ChannelSelect,
\* putSettings, invalidReference).
THEOREM GuildsKeepTheirSettings == PageSpec => []SettingsStayHome
<1>1. PageInv => SettingsStayHome
  BY DEF PageInv, AtHome
<1>. QED  BY <1>1, PageInvInit, PageInvNext, PTL DEF PageSpec

\* A list that has loaded is of the guild on screen and without what was
\* cancelled, whichever answer comes last (useAsync, ReminderPanel).
THEOREM ReminderListsAreCurrent == PageSpec => []ListIsCurrent
<1>1. PageInv => ListIsCurrent
  BY DEF PageInv, ListsAreCurrent
<1>. QED  BY <1>1, PageInvInit, PageInvNext, PTL DEF PageSpec

-----------------------------------------------------------------------------
(* The time of /remind.  The calendar's recursive definitions are replaced by *)
(* what they add up to, from which days and dates have one another.  Then the *)
(* instants that a text can mean are counted up.                             *)

\* The months added up.
MonthStart(y, m) ==
  LET february == MonthLength(y, 2)
  IN CASE m = 1 -> 0 [] m = 2 -> 31 [] m = 3 -> 31 + february
       [] m = 4 -> 62 + february [] m = 5 -> 92 + february [] m = 6 -> 123 + february
       [] m = 7 -> 153 + february [] m = 8 -> 184 + february [] m = 9 -> 215 + february
       [] m = 10 -> 245 + february [] m = 11 -> 276 + february [] OTHER -> 306 + february

\* And so the days before a month are what the recursion makes of them: the sums
\* are a function that satisfies it, and any that does has these twelve values.
LEMMA MonthsBegin ==
  ASSUME NEW y \in Int, NEW m \in 1 .. 12
  PROVE  DaysBeforeMonth(y, m) = MonthStart(y, m)
<1>. DEFINE f == [n \in 1 .. 12 |-> MonthStart(y, n)]
            Recursive(g) == g = [n \in 1 .. 12 |->
                IF n = 1 THEN 0 ELSE g[n - 1] + MonthLength(y, n - 1)]
            before == CHOOSE g : Recursive(g)
<1>1. \A n \in 1 .. 12 :
        MonthStart(y, n) = IF n = 1 THEN 0 ELSE MonthStart(y, n - 1) + MonthLength(y, n - 1)
  BY DEF MonthStart, MonthLength
<1>2. Recursive(f)
  BY <1>1
<1>3. Recursive(before)
  BY <1>2
<1>4. DaysBeforeMonth(y, m) = before[m]
  BY DEF DaysBeforeMonth
<1>5. \A n \in 1 .. 12 : before[n] = IF n = 1 THEN 0 ELSE before[n - 1] + MonthLength(y, n - 1)
  BY <1>3
<1>. HIDE DEF before
<1>6. /\ before[1] = 0
      /\ before[2] = before[1] + MonthLength(y, 1) /\ before[3] = before[2] + MonthLength(y, 2)
      /\ before[4] = before[3] + MonthLength(y, 3) /\ before[5] = before[4] + MonthLength(y, 4)
      /\ before[6] = before[5] + MonthLength(y, 5) /\ before[7] = before[6] + MonthLength(y, 6)
      /\ before[8] = before[7] + MonthLength(y, 7) /\ before[9] = before[8] + MonthLength(y, 8)
      /\ before[10] = before[9] + MonthLength(y, 9) /\ before[11] = before[10] + MonthLength(y, 10)
      /\ before[12] = before[11] + MonthLength(y, 11)
  BY <1>5
<1>7. before[m] = MonthStart(y, m)
  BY <1>6 DEF MonthStart, MonthLength
<1>. QED  BY <1>4, <1>7

\* The calendar has no leap year before its first.
YearLength(y) == IF y >= FirstYear /\ IsLeap(y) THEN 366 ELSE 365

\* A year begins as many days after the one before as that one has, a leap year
\* being one more element in the set that is counted.
LEMMA YearsBegin ==
  /\ \A y \in Int : DaysBeforeYear(y) \in Int
  /\ DaysBeforeYear(FirstYear) = 0
  /\ \A y \in Int : y < FirstYear => DaysBeforeYear(y) = 365 * (y - FirstYear)
  /\ \A y \in Int : DaysBeforeYear(y + 1) = DaysBeforeYear(y) + YearLength(y)
  /\ \A y, z \in Int : y <= z => DaysBeforeYear(y) + 365 * (z - y) <= DaysBeforeYear(z)
<1>. DEFINE leaps(y) == {z \in FirstYear .. y - 1 : IsLeap(z)}
<1>1. \A y \in Int : IsFiniteSet(leaps(y)) /\ Cardinality(leaps(y)) \in Nat
  <2>1. \A y \in Int : IsFiniteSet(FirstYear .. y - 1)
    BY JstAssumption, FS_Interval
  <2>2. \A y \in Int : leaps(y) \subseteq FirstYear .. y - 1
    OBVIOUS
  <2>. HIDE DEF leaps
  <2>. QED  BY <2>1, <2>2, FS_Subset, FS_CardinalityType
<1>2. \A y \in Int : DaysBeforeYear(y) = 365 * (y - FirstYear) + Cardinality(leaps(y))
  BY DEF DaysBeforeYear
<1>3. \A y \in Int : y <= FirstYear => leaps(y) = {}
  BY JstAssumption
<1>4. ASSUME NEW y \in Int
      PROVE  leaps(y + 1) = IF y >= FirstYear /\ IsLeap(y) THEN leaps(y) \cup {y} ELSE leaps(y)
  <2>1. \A z \in Int : z \in FirstYear .. (y + 1) - 1 <=>
                         z \in FirstYear .. y - 1 \/ (z = y /\ y >= FirstYear)
    BY JstAssumption
  <2>. QED  BY <2>1, JstAssumption
<1>5. \A y \in Int : y \notin leaps(y)
  BY JstAssumption
<1>6. \A y, z \in Int : y <= z => leaps(y) \subseteq leaps(z)
  BY JstAssumption
<1>. HIDE DEF leaps
<1>7. \A y \in Int : Cardinality(leaps(y + 1)) = Cardinality(leaps(y)) + YearLength(y) - 365
  <2>. SUFFICES ASSUME NEW y \in Int
                PROVE  Cardinality(leaps(y + 1)) = Cardinality(leaps(y)) + YearLength(y) - 365
    OBVIOUS
  <2>1. CASE y >= FirstYear /\ IsLeap(y)
    <3>1. leaps(y + 1) = leaps(y) \cup {y}
      BY <1>4, <2>1
    <3>2. Cardinality(leaps(y) \cup {y}) = Cardinality(leaps(y)) + 1
      BY <1>1, <1>5, FS_AddElement
    <3>. QED  BY <2>1, <3>1, <3>2, <1>1 DEF YearLength
  <2>2. CASE ~(y >= FirstYear /\ IsLeap(y))
    <3>1. leaps(y + 1) = leaps(y)
      BY <1>4, <2>2
    <3>2. YearLength(y) = 365
      BY <2>2 DEF YearLength
    <3>. QED  BY <3>1, <3>2, <1>1
  <2>. QED  BY <2>1, <2>2
<1>8. \A y, z \in Int : y <= z => Cardinality(leaps(y)) <= Cardinality(leaps(z))
  BY <1>1, <1>6, FS_Subset
<1>9. \A y \in Int : y <= FirstYear => Cardinality(leaps(y)) = 0
  BY <1>3, FS_EmptySet
<1>10. \A y \in Int : DaysBeforeYear(y) \in Int /\ YearLength(y) \in Int
  BY <1>1, <1>2, JstAssumption DEF YearLength
<1>11. \A y \in Int : y <= FirstYear => DaysBeforeYear(y) = 365 * (y - FirstYear)
  BY <1>2, <1>9, JstAssumption
<1>12. ASSUME NEW y \in Int  PROVE DaysBeforeYear(y + 1) = DaysBeforeYear(y) + YearLength(y)
  <2>1. Cardinality(leaps(y)) \in Int /\ Cardinality(leaps(y + 1)) \in Int
    BY <1>1
  <2>. QED  BY <2>1, <1>2, <1>7, <1>10, JstAssumption
<1>13. ASSUME NEW y \in Int, NEW z \in Int, y <= z
       PROVE  DaysBeforeYear(y) + 365 * (z - y) <= DaysBeforeYear(z)
  <2>1. Cardinality(leaps(y)) \in Int /\ Cardinality(leaps(z)) \in Int
    BY <1>1
  <2>. QED  BY <2>1, <1>2, <1>8, <1>13, JstAssumption
<1>. QED  BY <1>10, <1>11, <1>12, <1>13, JstAssumption

\* The same of one year.
LEMMA NextYear ==
  ASSUME NEW y \in Int
  PROVE  /\ DaysBeforeYear(y) \in Int /\ DaysBeforeYear(y + 1) \in Int
         /\ YearLength(y) \in 365 .. 366
         /\ DaysBeforeYear(y + 1) = DaysBeforeYear(y) + YearLength(y)
<1>1. YearLength(y) \in 365 .. 366
  BY DEF YearLength
<1>2. y + 1 \in Int
  OBVIOUS
<1>3. DaysBeforeYear(y) \in Int
  BY YearsBegin
<1>4. DaysBeforeYear(y + 1) \in Int
  BY <1>2, YearsBegin
<1>5. DaysBeforeYear(y + 1) = DaysBeforeYear(y) + YearLength(y)
  BY YearsBegin
<1>. QED  BY <1>1, <1>3, <1>4, <1>5

\* A later year begins at least 365 days later for each year between.
LEMMA LaterYear ==
  ASSUME NEW y \in Int, NEW z \in Int, y <= z
  PROVE  /\ DaysBeforeYear(y) \in Int /\ DaysBeforeYear(z) \in Int
         /\ DaysBeforeYear(y) + 365 * (z - y) <= DaysBeforeYear(z)
<1>1. DaysBeforeYear(y) \in Int /\ DaysBeforeYear(z) \in Int
  BY YearsBegin
<1>2. DaysBeforeYear(y) + 365 * (z - y) <= DaysBeforeYear(z)
  BY YearsBegin
<1>. QED  BY <1>1, <1>2

\* The calendar shows day number days as the d-th of the month m of the year y.
Shown(days, y, m, d) ==
  /\ y \in FirstYear - 1 .. FirstYear + Years - 1 /\ m \in 1 .. 12
  /\ d \in 1 .. MonthLength(y, m)
  /\ DaysBeforeYear(y) <= days /\ days < DaysBeforeYear(y + 1)
  /\ days = DaysBeforeYear(y) + DaysBeforeMonth(y, m) + d - 1

\* A day of the calendar is in some year: in the one before the first that begins
\* later.
LEMMA EveryDayHasAYear ==
  ASSUME NEW days \in -365 .. DaysBeforeYear(FirstYear + Years) - 1
  PROVE  \E y \in FirstYear - 1 .. FirstYear + Years - 1 :
           DaysBeforeYear(y) <= days /\ days < DaysBeforeYear(y + 1)
<1>. DEFINE S == {n \in Nat : DaysBeforeYear(FirstYear + n) > days}
<1>1. Years \in S
  BY YearsBegin, JstAssumption
<1>2. PICK n \in S : \A x \in S : n <= x
  <2>1. S \in SUBSET Nat /\ S # {}
    BY <1>1
  <2>. HIDE DEF S
  <2>. QED  BY <2>1, FirstOf
<1>3. n \in Nat /\ n <= Years /\ days < DaysBeforeYear(FirstYear + n)
  BY <1>1, <1>2
<1>. DEFINE y == FirstYear + n - 1
<1>4. y \in FirstYear - 1 .. FirstYear + Years - 1 /\ y + 1 = FirstYear + n
  BY <1>3, JstAssumption
<1>5. DaysBeforeYear(y) <= days
  <2>1. CASE n = 0
    BY <2>1, YearsBegin, JstAssumption
  <2>2. CASE n # 0
    <3>1. n - 1 \in Nat /\ n - 1 \notin S /\ y = FirstYear + (n - 1)
      BY <1>2, <1>3, <2>2, JstAssumption
    <3>2. DaysBeforeYear(y) \in Int /\ days \in Int
      BY <1>4, YearsBegin, JstAssumption
    <3>. QED  BY <3>1, <3>2
  <2>. QED  BY <2>1, <2>2
<1>. QED  BY <1>3, <1>4, <1>5

\* And a day of a year in some month.
LEMMA EveryDayHasAMonth ==
  ASSUME NEW y \in Int, NEW left \in Nat, left < YearLength(y)
  PROVE  \E m \in 1 .. 12 : /\ DaysBeforeMonth(y, m) <= left
                            /\ left < DaysBeforeMonth(y, m) + MonthLength(y, m)
<1>1. \E m \in 1 .. 12 : MonthStart(y, m) <= left /\ left < MonthStart(y, m) + MonthLength(y, m)
  <2>. DEFINE february == MonthLength(y, 2)
  <2>1. february \in Int /\ left < 337 + february
    BY DEF YearLength, MonthLength
  <2>. HIDE DEF february
  <2>2. /\ MonthStart(y, 1) = 0 /\ MonthStart(y, 2) = 31 /\ MonthStart(y, 3) = 31 + february
        /\ MonthStart(y, 4) = 62 + february /\ MonthStart(y, 5) = 92 + february
        /\ MonthStart(y, 6) = 123 + february /\ MonthStart(y, 7) = 153 + february
        /\ MonthStart(y, 8) = 184 + february /\ MonthStart(y, 9) = 215 + february
        /\ MonthStart(y, 10) = 245 + february /\ MonthStart(y, 11) = 276 + february
        /\ MonthStart(y, 12) = 306 + february
    BY DEF MonthStart, february
  <2>3. /\ MonthLength(y, 1) = 31 /\ MonthLength(y, 2) = february /\ MonthLength(y, 3) = 31
        /\ MonthLength(y, 4) = 30 /\ MonthLength(y, 5) = 31 /\ MonthLength(y, 6) = 30
        /\ MonthLength(y, 7) = 31 /\ MonthLength(y, 8) = 31 /\ MonthLength(y, 9) = 30
        /\ MonthLength(y, 10) = 31 /\ MonthLength(y, 11) = 30 /\ MonthLength(y, 12) = 31
    BY DEF MonthLength, february
  <2>. QED  BY <2>1, <2>2, <2>3
<1>. QED  BY <1>1, MonthsBegin

\* What the calendar says of a day number is a date of that number.
LEMMA CalendarShows ==
  ASSUME NEW days \in -365 .. DaysBeforeYear(FirstYear + Years) - 1
  PROVE  \E y, m, d \in Int :
           Shown(days, y, m, d) /\ Calendar[days] = [y |-> y, m |-> m, d |-> d]
<1>. DEFINE Y == CHOOSE y \in FirstYear - 1 .. FirstYear + Years - 1 :
                    DaysBeforeYear(y) <= days /\ days < DaysBeforeYear(y + 1)
            left == days - DaysBeforeYear(Y)
            M == CHOOSE m \in 1 .. 12 : /\ DaysBeforeMonth(Y, m) <= left
                                        /\ left < DaysBeforeMonth(Y, m) + MonthLength(Y, m)
            D == left - DaysBeforeMonth(Y, M) + 1
<1>1. Calendar[days] = [y |-> Y, m |-> M, d |-> D]
  BY DEF Calendar
<1>2. /\ Y \in FirstYear - 1 .. FirstYear + Years - 1
      /\ DaysBeforeYear(Y) <= days /\ days < DaysBeforeYear(Y + 1)
  BY EveryDayHasAYear
<1>3. /\ Y \in Int /\ left \in Nat /\ left < YearLength(Y)
      /\ days \in Int /\ days = DaysBeforeYear(Y) + left
  <2>. HIDE DEF Y
  <2>1. Y \in Int
    BY <1>2, JstAssumption
  <2>2. YearLength(Y) \in Int
    BY DEF YearLength
  <2>3. DaysBeforeYear(Y) \in Int /\ DaysBeforeYear(Y + 1) = DaysBeforeYear(Y) + YearLength(Y)
    BY <2>1, YearsBegin
  <2>4. days \in Int
    BY YearsBegin, JstAssumption
  <2>. QED  BY <1>2, <2>1, <2>2, <2>3, <2>4
<1>. HIDE DEF Y, left
<1>4. /\ M \in 1 .. 12 /\ DaysBeforeMonth(Y, M) <= left
      /\ left < DaysBeforeMonth(Y, M) + MonthLength(Y, M)
  BY <1>3, EveryDayHasAMonth
<1>. HIDE DEF M
<1>5. DaysBeforeMonth(Y, M) \in Int /\ MonthLength(Y, M) \in Int
  BY <1>3, <1>4, MonthsBegin DEF MonthStart, MonthLength
<1>6. D \in Int /\ D \in 1 .. MonthLength(Y, M) /\ M \in Int
  BY <1>3, <1>4, <1>5
<1>7. DaysBeforeYear(Y) \in Int
  BY <1>3, YearsBegin
<1>8. days = DaysBeforeYear(Y) + DaysBeforeMonth(Y, M) + D - 1
  BY <1>3, <1>5, <1>7
<1>. HIDE DEF D
<1>9. Shown(days, Y, M, D)
  BY <1>2, <1>4, <1>6, <1>8 DEF Shown
<1>. QED  BY <1>1, <1>3, <1>6, <1>9

\* The day number of a date.
DayOf(y, m, d) == DaysBeforeYear(y) + DaysBeforeMonth(y, m) + d - 1

\* A month ends before the next one begins, and December with the year.
LEMMA MonthsFollow ==
  ASSUME NEW y \in Int, NEW m \in 1 .. 12
  PROVE  /\ DaysBeforeMonth(y, m) \in Nat /\ MonthLength(y, m) \in 28 .. 31
         /\ DaysBeforeMonth(y, m) <= 335
         /\ y >= FirstYear => DaysBeforeMonth(y, m) + MonthLength(y, m) <= YearLength(y)
         /\ \A n \in 1 .. 12 :
              m < n => DaysBeforeMonth(y, m) + MonthLength(y, m) <= DaysBeforeMonth(y, n)
BY MonthsBegin DEF MonthStart, MonthLength, YearLength

\* No two dates have a number in common.
LEMMA OneDate ==
  ASSUME NEW y \in Int, FirstYear <= y, NEW m \in 1 .. 12, NEW d \in 1 .. MonthLength(y, m),
         NEW y2 \in Int, NEW m2 \in Int, NEW d2 \in Int, Shown(DayOf(y, m, d), y2, m2, d2)
  PROVE  y2 = y /\ m2 = m /\ d2 = d
<1>. DEFINE k == DayOf(y, m, d)
<1>1. /\ m2 \in 1 .. 12 /\ d2 \in 1 .. MonthLength(y2, m2)
      /\ DaysBeforeYear(y2) <= k /\ k < DaysBeforeYear(y2 + 1)
      /\ k = DaysBeforeYear(y2) + DaysBeforeMonth(y2, m2) + d2 - 1
  BY DEF Shown
<1>2. /\ DaysBeforeMonth(y, m) \in Nat /\ MonthLength(y, m) \in 28 .. 31
      /\ DaysBeforeMonth(y, m) + MonthLength(y, m) <= YearLength(y)
  BY MonthsFollow
<1>10. YearLength(y) \in Int
  BY DEF YearLength
<1>3. \A z \in Int : DaysBeforeYear(z) \in Int
  BY YearsBegin
<1>4. k = DaysBeforeYear(y) + DaysBeforeMonth(y, m) + d - 1 /\ k \in Int
  BY <1>2, <1>3 DEF DayOf
<1>5. DaysBeforeYear(y + 1) = DaysBeforeYear(y) + YearLength(y)
  BY YearsBegin
<1>. HIDE DEF k
<1>6. DaysBeforeYear(y) <= k /\ k < DaysBeforeYear(y + 1)
  BY <1>2, <1>3, <1>4, <1>5, <1>10
<1>7. y2 = y
  <2>1. ASSUME NEW z \in Int, NEW u \in Int, z <= u
        PROVE  DaysBeforeYear(z) <= DaysBeforeYear(u)
    <3>1. DaysBeforeYear(z) + 365 * (u - z) <= DaysBeforeYear(u)
      BY <2>1, YearsBegin
    <3>. QED  BY <2>1, <3>1, <1>3
  <2>2. DaysBeforeYear(y + 1) \in Int /\ DaysBeforeYear(y2 + 1) \in Int
    BY <1>3
  <2>3. y + 1 <= y2 => DaysBeforeYear(y + 1) <= DaysBeforeYear(y2)
    BY <2>1
  <2>4. y2 + 1 <= y => DaysBeforeYear(y2 + 1) <= DaysBeforeYear(y)
    BY <2>1
  <2>. QED  BY <1>1, <1>3, <1>4, <1>6, <2>2, <2>3, <2>4
<1>8. /\ DaysBeforeMonth(y, m2) \in Nat /\ MonthLength(y, m2) \in 28 .. 31
      /\ m < m2 => DaysBeforeMonth(y, m) + MonthLength(y, m) <= DaysBeforeMonth(y, m2)
      /\ m2 < m => DaysBeforeMonth(y, m2) + MonthLength(y, m2) <= DaysBeforeMonth(y, m)
  BY <1>1, MonthsFollow
<1>9. m2 = m
  BY <1>1, <1>2, <1>3, <1>4, <1>7, <1>8
<1>. QED  BY <1>1, <1>2, <1>3, <1>4, <1>7, <1>9

\* Quotients and remainders of a day and of an hour.
LEMMA Remainder ==
  ASSUME NEW t \in Int
  PROVE  /\ t % 2880 \in 0 .. 2879 /\ t = (t \div 2880) * 2880 + (t % 2880)
         /\ t % 120 \in 0 .. 119 /\ t = (t \div 120) * 120 + (t % 120)
OBVIOUS

\* An instant of a day, in UTC.
At(k, h, i) == k * Day + h * Hour + i * 2

\* The day, hour and minute of an instant are those it was made of.
LEMMA Clockwork ==
  ASSUME NEW k \in Int, NEW h \in 0 .. 23, NEW i \in 0 .. 59
  PROVE  /\ At(k, h, i) \in Int /\ At(k, h, i) \div Day = k
         /\ HourOf(At(k, h, i)) = h /\ MinuteOf(At(k, h, i)) = i
<1>. DEFINE r == h * 120 + i * 2
            t == k * 2880 + r
            a == k * 24 + h
            s == a * 120 + i * 2
<1>1. Day = 2880 /\ Hour = 120
  BY DEF Day, Hour
<1>2. At(k, h, i) = t /\ s = t /\ t \in Int
  BY <1>1 DEF At
<1>3. r \in 0 .. 2879 /\ r \in Int /\ h * 120 <= r /\ r < h * 120 + 120
  OBVIOUS
<1>4. t \div 2880 = k /\ t % 2880 = r
  <2>. HIDE DEF r
  <2>1. \A x \in Int, y \in 0 .. 2879 : (x * 2880 + y) \div 2880 = x
    OBVIOUS
  <2>2. \A x \in Int, y \in 0 .. 2879 : (x * 2880 + y) % 2880 = y
    OBVIOUS
  <2>3. k \in Int /\ r \in 0 .. 2879
    BY <1>3
  <2>4. (k * 2880 + r) \div 2880 = k
    BY ONLY <2>1, <2>3
  <2>5. (k * 2880 + r) % 2880 = r
    BY ONLY <2>2, <2>3
  <2>. QED  BY ONLY <2>4, <2>5
<1>5. r \div 120 = h
  <2>. HIDE DEF r
  <2>. QED  BY <1>3, Quotient
<1>6. s % 120 = i * 2
  <2>. HIDE DEF a
  <2>1. \A x \in Int, y \in 0 .. 119 : (x * 120 + y) % 120 = y
    OBVIOUS
  <2>2. a \in Int /\ i * 2 \in 0 .. 119
    BY DEF a
  <2>. QED  BY <2>1, <2>2
<1>7. (i * 2) \div 2 = i
  OBVIOUS
<1>. HIDE DEF r, t, s
<1>. QED  BY <1>1, <1>2, <1>4, <1>5, <1>6, <1>7 DEF HourOf, MinuteOf

\* Every instant has an hour and a minute.
LEMMA Unwound ==
  ASSUME NEW t \in Int
  PROVE  /\ HourOf(t) \in 0 .. 23 /\ MinuteOf(t) \in 0 .. 59
         /\ t \div Day \in Int /\ t % Day \in 0 .. Day - 1
         /\ t = (t \div Day) * Day + (t % Day)
<1>1. Day = 2880 /\ Hour = 120
  BY DEF Day, Hour
<1>2. /\ t % 2880 \in 0 .. 2879 /\ t = (t \div 2880) * 2880 + (t % 2880)
      /\ t % 120 \in 0 .. 119 /\ t \div 2880 \in Int
  BY Quotient, Remainder
<1>3. \A r \in 0 .. 2879 : r \div 120 \in 0 .. 23
  OBVIOUS
<1>4. \A r \in 0 .. 119 : r \div 2 \in 0 .. 59
  OBVIOUS
<1>. QED  BY <1>1, <1>2, <1>3, <1>4 DEF HourOf, MinuteOf

\* A date and a time that exist.
Valid(y, m, d, h, i) ==
  /\ m \in 1 .. 12 /\ d \in 1 .. MonthLength(y, m) /\ h \in 0 .. 23 /\ i \in 0 .. 59

\* Date.UTC of those is read back as they are, so that jstToEpoch returns it.
LEMMA EpochOfValid ==
  ASSUME NEW y \in Int, FirstYear <= y, y < FirstYear + Years, NEW m, NEW d, NEW h, NEW i,
         Valid(y, m, d, h, i)
  PROVE  /\ DayOf(y, m, d) \in DaysBeforeYear(y) .. DaysBeforeYear(y + 1) - 1
         /\ JstToEpoch(y, m, d, h, i) = At(DayOf(y, m, d), h, i) - Offset
         /\ Calendar[DayOf(y, m, d)] = [y |-> y, m |-> m, d |-> d]
<1>. DEFINE k == DayOf(y, m, d)
            utc == At(k, h, i)
<1>1. m \in 1 .. 12 /\ d \in 1 .. MonthLength(y, m) /\ h \in 0 .. 23 /\ i \in 0 .. 59
  BY DEF Valid
<1>2. /\ DaysBeforeMonth(y, m) \in Nat /\ MonthLength(y, m) \in 28 .. 31
      /\ DaysBeforeMonth(y, m) + MonthLength(y, m) <= YearLength(y)
  BY <1>1, MonthsFollow
<1>3. \A z \in Int : DaysBeforeYear(z) \in Int
  BY YearsBegin
<1>4. DaysBeforeYear(y + 1) = DaysBeforeYear(y) + YearLength(y) /\ DaysBeforeYear(y + 1) \in Int
  BY YearsBegin
<1>5. YearLength(y) \in Int
  BY DEF YearLength
<1>6. k \in DaysBeforeYear(y) .. DaysBeforeYear(y + 1) - 1
  BY <1>1, <1>2, <1>3, <1>4, <1>5 DEF DayOf
<1>7. 0 <= DaysBeforeYear(y)
  <2>1. DaysBeforeYear(FirstYear) + 365 * (y - FirstYear) <= DaysBeforeYear(y)
    BY YearsBegin, JstAssumption
  <2>. QED  BY <2>1, <1>3, YearsBegin, JstAssumption
<1>8. /\ DaysBeforeYear(y + 1) <= DaysBeforeYear(FirstYear + Years)
      /\ DaysBeforeYear(FirstYear + Years) \in Int
  <2>1. DaysBeforeYear(y + 1) + 365 * (FirstYear + Years - (y + 1))
          <= DaysBeforeYear(FirstYear + Years)
    BY YearsBegin, JstAssumption
  <2>. QED  BY <2>1, <1>3, JstAssumption
<1>9. k \in -365 .. DaysBeforeYear(FirstYear + Years) - 1
  BY <1>3, <1>4, <1>6, <1>7, <1>8
<1>10. PICK y2 \in Int, m2 \in Int, d2 \in Int :
         Shown(k, y2, m2, d2) /\ Calendar[k] = [y |-> y2, m |-> m2, d |-> d2]
  BY <1>9, CalendarShows
<1>11. Calendar[k] = [y |-> y, m |-> m, d |-> d]
  <2>1. Shown(DayOf(y, m, d), y2, m2, d2)
    BY <1>10
  <2>2. y2 = y /\ m2 = m /\ d2 = d
    BY <1>1, <2>1, OneDate
  <2>. QED  BY <1>10, <2>2
<1>12. UTC(y, m, d, h, i) = utc
  <2>1. (m - 1) \div 12 = 0 /\ ((m - 1) % 12) + 1 = m /\ y + 0 = y
    BY <1>1
  <2>. QED  BY <2>1 DEF UTC, DayOf, At
<1>. HIDE DEF k
<1>13. utc \in Int /\ utc \div Day = k /\ HourOf(utc) = h /\ MinuteOf(utc) = i
  <2>1. k \in Int
    BY <1>9
  <2>. QED  BY <2>1, <1>1, Clockwork
<1>14. JstToEpoch(y, m, d, h, i) = utc - Offset
  BY <1>11, <1>12, <1>13 DEF JstToEpoch, YMD
<1>. QED  BY <1>6, <1>11, <1>14 DEF k

\* And of others it is read back as something else, so that jstToEpoch refuses
\* them, whatever is carried over and as far as it is.
LEMMA EpochOfInvalid ==
  ASSUME NEW y \in Int, FirstYear <= y, y <= FirstYear + Years - 11,
         NEW m \in TwoDigits, NEW d \in TwoDigits, NEW h \in TwoDigits, NEW i \in TwoDigits,
         ~Valid(y, m, d, h, i)
  PROVE  JstToEpoch(y, m, d, h, i) = Null
<1>. DEFINE z == y + (m - 1) \div 12
            n == ((m - 1) % 12) + 1
            utc == (DaysBeforeYear(z) + DaysBeforeMonth(z, n) + d - 1) * Day + h * Hour + i * 2
            k == utc \div Day
<1>1. z \in Int /\ y - 1 <= z /\ z <= y + 8 /\ n \in 1 .. 12 /\ (m = 0 => n = 12)
  BY DEF TwoDigits
<1>2. UTC(y, m, d, h, i) = utc
  BY DEF UTC
<1>. HIDE DEF z, n
<1>3. DaysBeforeYear(z) \in Int /\ DaysBeforeMonth(z, n) \in Nat /\ DaysBeforeMonth(z, n) <= 335
  <2>1. DaysBeforeYear(z) \in Int
    BY <1>1, YearsBegin
  <2>. QED  BY <1>1, <2>1, MonthsFollow
<1>4. utc \in Int /\ k \in Int
  BY <1>3 DEF Day, Hour, TwoDigits
<1>5. /\ DaysBeforeYear(z) + DaysBeforeMonth(z, n) - 1 <= k
      /\ k <= DaysBeforeYear(z) + 335 + 98 + 5
  BY <1>3 DEF Day, Hour, TwoDigits
<1>. HIDE DEF k
<1>6. -365 <= k
  <2>1. CASE FirstYear <= z
    <3>1. DaysBeforeYear(FirstYear) + 365 * (z - FirstYear) <= DaysBeforeYear(z)
      BY <2>1, <1>1, YearsBegin, JstAssumption
    <3>2. 0 <= DaysBeforeYear(z)
      BY <2>1, <3>1, <1>1, <1>3, YearsBegin, JstAssumption
    <3>. QED  BY <3>2, <1>3, <1>4, <1>5
  <2>2. CASE z < FirstYear
    <3>1. m = 0 /\ z = FirstYear - 1
      BY <2>2, <1>1, JstAssumption DEF z, TwoDigits
    <3>2. DaysBeforeYear(z) = -365
      BY <3>1, YearsBegin, JstAssumption
    <3>3. DaysBeforeMonth(z, n) >= 334
      BY <1>1, <3>1, MonthsBegin DEF MonthStart, MonthLength
    <3>. QED  BY <3>2, <3>3, <1>3, <1>4, <1>5
  <2>. QED  BY <1>1, <2>1, <2>2, JstAssumption
<1>7. k <= DaysBeforeYear(FirstYear + Years) - 1
  <2>1. DaysBeforeYear(z) + 365 * (FirstYear + Years - z) <= DaysBeforeYear(FirstYear + Years)
    BY <1>1, YearsBegin, JstAssumption
  <2>2. DaysBeforeYear(FirstYear + Years) \in Int
    BY YearsBegin, JstAssumption
  <2>. QED  BY <2>1, <2>2, <1>1, <1>3, <1>4, <1>5, JstAssumption
<1>8. k \in -365 .. DaysBeforeYear(FirstYear + Years) - 1
  <2>2. DaysBeforeYear(FirstYear + Years) \in Int
    BY YearsBegin, JstAssumption
  <2>. QED  BY <2>2, <1>4, <1>6, <1>7
<1>9. PICK y2 \in Int, m2 \in Int, d2 \in Int :
         Shown(k, y2, m2, d2) /\ Calendar[k] = [y |-> y2, m |-> m2, d |-> d2]
  BY <1>8, CalendarShows
<1>. HIDE DEF utc
<1>10. HourOf(utc) \in 0 .. 23 /\ MinuteOf(utc) \in 0 .. 59
  BY <1>4, Unwound
<1>11. ~(Calendar[k] = [y |-> y, m |-> m, d |-> d] /\ HourOf(utc) = h /\ MinuteOf(utc) = i)
  BY <1>9, <1>10 DEF Valid, Shown
<1>. QED  BY <1>2, <1>11, Zenon DEF JstToEpoch, YMD, k

\* What today is, in Japan, and how the days since then are numbered.
LEMMA TodayIs ==
  ASSUME NEW now \in Clocks
  PROVE  /\ now \in Nat /\ (now + Offset) \div Day \in Nat
         /\ \E y, m, d \in Int :
              /\ Today(now) = [y |-> y, m |-> m, d |-> d]
              /\ Shown((now + Offset) \div Day, y, m, d)
              /\ FirstYear <= y /\ y <= FirstYear + Years - 12
<1>. DEFINE k == (now + Offset) \div Day
            last == FirstYear + Years - 12
<1>0. last \in Int /\ \A z \in Int : DaysBeforeYear(z) \in Int
  BY YearsBegin, JstAssumption
<1>. HIDE DEF last
<1>1. now \in Nat /\ now <= DaysBeforeYear(last) * Day
  <2>1. DaysBeforeYear(last) * Day \in Int
    BY <1>0 DEF Day, Hour
  <2>. QED  BY <2>1, JstAssumption DEF last
<1>2. k \in Nat /\ k <= DaysBeforeYear(last)
  <2>1. DaysBeforeYear(last) \in Int
    BY <1>0
  <2>. QED  BY <2>1, <1>1 DEF Day, Hour, Offset
<1>. HIDE DEF k
<1>3. DaysBeforeYear(last) + 365 * 12 <= DaysBeforeYear(FirstYear + Years)
  BY YearsBegin, JstAssumption DEF last
<1>4. k \in -365 .. DaysBeforeYear(FirstYear + Years) - 1
  BY <1>0, <1>2, <1>3, JstAssumption
<1>5. PICK y \in Int, m \in Int, d \in Int :
        Shown(k, y, m, d) /\ Calendar[k] = [y |-> y, m |-> m, d |-> d]
  BY <1>4, CalendarShows
<1>6. DaysBeforeYear(y) <= k /\ k < DaysBeforeYear(y + 1) /\ y + 1 \in Int
  BY <1>5 DEF Shown
<1>7. FirstYear <= y
  <2>1. ASSUME y < FirstYear  PROVE FALSE
    <3>1. DaysBeforeYear(y + 1) + 365 * (FirstYear - (y + 1)) <= DaysBeforeYear(FirstYear)
      BY <1>6, <2>1, YearsBegin, JstAssumption
    <3>2. DaysBeforeYear(y + 1) \in Int /\ DaysBeforeYear(FirstYear) = 0
      BY <1>0, <1>6, YearsBegin
    <3>. QED  BY <2>1, <3>1, <3>2, <1>2, <1>6, JstAssumption
  <2>. QED  BY <2>1, JstAssumption
<1>8. y <= last
  <2>1. last < y => DaysBeforeYear(last) + 365 * (y - last) <= DaysBeforeYear(y)
    BY <1>0, YearsBegin
  <2>. QED  BY <2>1, <1>0, <1>2, <1>6
<1>. QED  BY <1>1, <1>2, <1>5, <1>7, <1>8 DEF Today, YMD, k, last

\* The first candidate is on the day of the last instant at the text's hour that
\* is not after now.
FirstDay(now, h, i) == (now - (h * Hour + i * 2 - Offset)) \div Day

\* That instant and the one a day later are about now.
LEMMA FirstDayIs ==
  ASSUME NEW now \in Nat, NEW h \in TwoDigits, NEW i \in TwoDigits
  PROVE  /\ FirstDay(now, h, i) \in Int
         /\ At(FirstDay(now, h, i), h, i) - Offset <= now
         /\ now < At(FirstDay(now, h, i) + 1, h, i) - Offset
         /\ \A k \in Int : At(k, h, i) \in Int
<1>. DEFINE a == now - (h * Hour + i * 2 - Offset)
            first == FirstDay(now, h, i)
<1>1. a \in Int /\ first = a \div 2880
  BY DEF Hour, Offset, Day, TwoDigits, FirstDay
<1>2. first \in Int /\ first * 2880 <= a /\ a < first * 2880 + 2880
  <2>. HIDE DEF a, first
  <2>. QED  BY <1>1, Quotient
<1>. HIDE DEF first
<1>3. At(first, h, i) - Offset <= now /\ now < At(first + 1, h, i) - Offset
  BY <1>2 DEF At, Day, Hour, Offset, TwoDigits
<1>4. \A k \in Int : At(k, h, i) \in Int
  BY DEF At, Day, Hour, TwoDigits
<1>. QED  BY <1>2, <1>3, <1>4 DEF first

\* The candidates by their days.
Ahead(x, now) ==
  LET first == FirstDay(now, x.hour, x.minute)
      days == IF x.dated THEN 0 .. 731 ELSE 0 .. 1
  IN {t \in {At(first + n, x.hour, x.minute) - Offset : n \in days} :
        /\ t >= now
        /\ x.dated => YMD(t + Offset).y <= Today(now).y + 1}

\* They are all there is.
LEMMA CandidatesAre ==
  ASSUME NEW now \in Nat, NEW x, x.hour \in TwoDigits, x.minute \in TwoDigits
  PROVE  Candidates(x, now) = Ahead(x, now)
<1>. DEFINE h == x.hour
            i == x.minute
            first == FirstDay(now, h, i)
            minute == h * Hour + i * 2 - Offset
            days == IF x.dated THEN 0 .. 731 ELSE 0 .. 1
<1>1. h \in TwoDigits /\ i \in TwoDigits
  OBVIOUS
<1>2. Candidates(x, now) =
        {t \in {(first + n) * Day + minute : n \in days} :
           t >= now /\ (x.dated => YMD(t + Offset).y <= Today(now).y + 1)}
  BY DEF Candidates, FirstDay
<1>. HIDE DEF h, i
<1>3. first \in Int
  BY <1>1, FirstDayIs
<1>4. ASSUME NEW k \in Int  PROVE k * Day + minute = At(k, h, i) - Offset
  BY <1>1 DEF At, Day, Hour, Offset, TwoDigits
<1>. HIDE DEF first, minute
<1>7. days \in SUBSET Nat
  OBVIOUS
<1>. HIDE DEF days
<1>5. \A n \in days : (first + n) * Day + minute = At(first + n, h, i) - Offset
  BY <1>3, <1>4, <1>7
<1>6. {(first + n) * Day + minute : n \in days} = {At(first + n, h, i) - Offset : n \in days}
  BY <1>5
<1>. QED  BY <1>2, <1>6 DEF Ahead, first, h, i, days

\* The instants a text can mean.
Fits(x, now) == {t \in Candidates(x, now) : ReadsAs(t, x)}

\* A candidate is read by its day and its time.
LEMMA ReadsOf ==
  ASSUME NEW k \in Int, NEW h \in TwoDigits, NEW i \in TwoDigits
  PROVE  LET t == At(k, h, i) - Offset
         IN  /\ t \in Int /\ t + Offset = At(k, h, i)
             /\ HourOf(t + Offset) = h /\ MinuteOf(t + Offset) = i <=> h \in 0 .. 23 /\ i \in 0 .. 59
             /\ h \in 0 .. 23 /\ i \in 0 .. 59 => YMD(t + Offset) = Calendar[k]
<1>1. At(k, h, i) \in Int
  BY DEF At, Day, Hour, TwoDigits
<1>2. At(k, h, i) - Offset + Offset = At(k, h, i) /\ At(k, h, i) - Offset \in Int
  BY <1>1 DEF Offset, Hour
<1>3. HourOf(At(k, h, i)) \in 0 .. 23 /\ MinuteOf(At(k, h, i)) \in 0 .. 59
  BY <1>1, Unwound
<1>4. h \in 0 .. 23 /\ i \in 0 .. 59 =>
        /\ At(k, h, i) \div Day = k
        /\ HourOf(At(k, h, i)) = h /\ MinuteOf(At(k, h, i)) = i
  BY Clockwork
<1>. QED  BY <1>2, <1>3, <1>4 DEF YMD

\* Those that a date can mean are the date of this year and that of the next, as
\* far as they exist and are not past: 731 days are enough for both, as no two
\* years that follow one another are leap years.
LEMMA DatedFits ==
  ASSUME NEW now \in Clocks, NEW x \in Text, x.dated
  PROVE  LET year == Today(now).y
             at(y) == JstToEpoch(y, x.month, x.day, x.hour, x.minute)
         IN  Fits(x, now) = {t \in {at(year), at(year + 1)} : t # Null /\ t >= now}
<1>1. PICK year \in Int, month \in Int, day \in Int :
        /\ Today(now) = [y |-> year, m |-> month, d |-> day]
        /\ Shown((now + Offset) \div Day, year, month, day)
        /\ FirstYear <= year /\ year <= FirstYear + Years - 12
  BY TodayIs
<1>. DEFINE today == (now + Offset) \div Day
            m == x.month
            d == x.day
            h == x.hour
            i == x.minute
            first == FirstDay(now, h, i)
            at(y) == JstToEpoch(y, m, d, h, i)
<1>2. /\ m \in TwoDigits /\ d \in TwoDigits /\ h \in TwoDigits /\ i \in TwoDigits
  BY DEF Text
<1>3. Today(now).y = year
  BY <1>1
<1>4. now \in Nat /\ today \in Nat
  BY TodayIs
<1>5. DaysBeforeYear(year) <= today /\ today < DaysBeforeYear(year + 1)
  BY <1>1 DEF Shown
<1>6. today * 2880 <= now + 1080 /\ now + 1080 < today * 2880 + 2880
  <2>1. now + 1080 \in Int /\ today = (now + 1080) \div 2880
    BY <1>4 DEF Day, Hour, Offset
  <2>. HIDE DEF today
  <2>. QED  BY <2>1, Quotient
<1>7. /\ first \in Int
      /\ At(first, h, i) - Offset <= now /\ now < At(first + 1, h, i) - Offset
  BY <1>2, <1>4, FirstDayIs
<1>8. Candidates(x, now) = {t \in {At(first + n, h, i) - Offset : n \in 0 .. 731} :
                              t >= now /\ YMD(t + Offset).y <= year + 1}
  <2>1. x.hour \in TwoDigits /\ x.minute \in TwoDigits
    BY <1>2
  <2>. HIDE DEF m, d, h, i, at, today
  <2>2. Candidates(x, now) = Ahead(x, now)
    BY <2>1, <1>4, CandidatesAre
  <2>. QED  BY <2>2, <1>3 DEF Ahead, h, i
<1>. HIDE DEF today, m, d, h, i, first
<1>9. ASSUME NEW k \in Int, h \in 0 .. 23, i \in 0 .. 59
      PROVE  /\ At(k, h, i) - Offset >= now => k >= today /\ k >= first
             /\ At(k, h, i) - Offset >= now <=> k * 2880 + h * 120 + i * 2 - 1080 >= now
             /\ first >= today - 1 /\ first <= today
  BY <1>4, <1>6, <1>7, <1>9 DEF At, Day, Hour, Offset
<1>10. ASSUME NEW t \in Fits(x, now)
       PROVE  t \in {at(year), at(year + 1)} /\ t # Null /\ t >= now
  <2>1. PICK n \in 0 .. 731 : t = At(first + n, h, i) - Offset
    BY <1>8 DEF Fits
  <2>2. t >= now /\ YMD(t + Offset).y <= year + 1 /\ ReadsAs(t, x)
    BY <1>8 DEF Fits
  <2>. DEFINE k == first + n
  <2>3. k \in Int /\ t = At(k, h, i) - Offset
    BY <2>1, <1>7
  <2>. HIDE DEF k
  <2>4. h \in 0 .. 23 /\ i \in 0 .. 59 /\ YMD(t + Offset) = Calendar[k] /\ t \in Int
    <3>1. HourOf(t + Offset) = h /\ MinuteOf(t + Offset) = i
      BY <2>2 DEF ReadsAs, h, i
    <3>. QED  BY <3>1, <2>3, <1>2, ReadsOf
  <2>5. k >= today
    BY <2>2, <2>3, <2>4, <1>9
  <2>6. k \in -365 .. DaysBeforeYear(FirstYear + Years) - 1
    <3>1. k <= today + 731 /\ -1 <= k
      BY <2>3, <2>4, <1>4, <1>7, <1>9 DEF k
    <3>2. /\ DaysBeforeYear(year + 1) \in Int /\ DaysBeforeYear(FirstYear + Years) \in Int
          /\ DaysBeforeYear(year + 1) + 365 * 11 <= DaysBeforeYear(FirstYear + Years)
      <4>. DEFINE rest == FirstYear + Years - (year + 1)
      <4>1. year + 1 \in Int /\ FirstYear + Years \in Int /\ rest \in Int /\ rest >= 11
        BY <1>1, JstAssumption
      <4>2. DaysBeforeYear(year + 1) + 365 * rest <= DaysBeforeYear(FirstYear + Years)
        BY <4>1, JstAssumption, LaterYear
      <4>3. DaysBeforeYear(year + 1) \in Int /\ DaysBeforeYear(FirstYear + Years) \in Int
        BY <4>1, YearsBegin
      <4>. HIDE DEF rest
      <4>4. DaysBeforeYear(year + 1) + 365 * 11 <= DaysBeforeYear(FirstYear + Years)
        BY <4>1, <4>2, <4>3
      <4>. QED  BY <4>3, <4>4
    <3>. QED  BY <3>1, <3>2, <2>3, <1>4, <1>5
  <2>7. PICK y2 \in Int, m2 \in Int, d2 \in Int :
          Shown(k, y2, m2, d2) /\ Calendar[k] = [y |-> y2, m |-> m2, d |-> d2]
    BY <2>6, CalendarShows
  <2>8. y2 <= year + 1 /\ m2 = m /\ d2 = d
    BY <2>2, <2>4, <2>7 DEF ReadsAs, m, d
  <2>9. y2 >= year
    <3>1. ASSUME y2 + 1 <= year  PROVE FALSE
      <4>. DEFINE z == y2 + 1
      <4>1. z \in Int /\ z <= year
        BY <3>1
      <4>. HIDE DEF z
      <4>2. /\ DaysBeforeYear(z) \in Int /\ DaysBeforeYear(year) \in Int
            /\ DaysBeforeYear(z) + 365 * (year - z) <= DaysBeforeYear(year)
        BY <4>1, LaterYear
      <4>3. k < DaysBeforeYear(z)
        BY <2>7 DEF Shown, z
      <4>. QED  BY <4>1, <4>2, <4>3, <3>1, <2>3, <2>5, <1>4, <1>5
    <3>. QED  BY <3>1
  <2>10. Valid(y2, m, d, h, i) /\ DayOf(y2, m, d) = k
    BY <2>4, <2>7, <2>8 DEF Valid, Shown, DayOf
  <2>11. at(y2) = t
    <3>1. FirstYear <= y2 /\ y2 < FirstYear + Years
      BY <2>8, <2>9, <1>1, JstAssumption
    <3>2. /\ DayOf(y2, m, d) \in DaysBeforeYear(y2) .. DaysBeforeYear(y2 + 1) - 1
          /\ JstToEpoch(y2, m, d, h, i) = At(DayOf(y2, m, d), h, i) - Offset
          /\ Calendar[DayOf(y2, m, d)] = [y |-> y2, m |-> m, d |-> d]
      BY <3>1, <2>10, EpochOfValid
    <3>. QED  BY <3>2, <2>3, <2>10
  <2>12. y2 = year \/ y2 = year + 1
    BY <2>8, <2>9
  <2>13. t # Null
    BY <2>2, <2>4, <1>4 DEF Null
  <2>. QED  BY <2>2, <2>11, <2>12, <2>13
<1>11. ASSUME NEW y2 \in {year, year + 1}, at(y2) # Null, at(y2) >= now
       PROVE  at(y2) \in Fits(x, now)
  <2>. DEFINE k == DayOf(y2, m, d)
              t == at(y2)
  <2>1. y2 \in Int /\ FirstYear <= y2 /\ y2 <= FirstYear + Years - 11
    BY <1>1, JstAssumption
  <2>2. Valid(y2, m, d, h, i)
    BY <1>2, <1>11, <2>1, EpochOfInvalid
  <2>3. /\ k \in DaysBeforeYear(y2) .. DaysBeforeYear(y2 + 1) - 1
        /\ t = At(k, h, i) - Offset
        /\ Calendar[k] = [y |-> y2, m |-> m, d |-> d]
    <3>1. y2 < FirstYear + Years
      BY <2>1, JstAssumption
    <3>. QED  BY <3>1, <2>1, <2>2, EpochOfValid
  <2>4. h \in 0 .. 23 /\ i \in 0 .. 59
    BY <2>2 DEF Valid
  <2>5. k \in Int
    <3>1. DaysBeforeYear(y2) \in Int /\ DaysBeforeYear(y2 + 1) \in Int
      BY <2>1, YearsBegin
    <3>. QED  BY <3>1, <2>3
  <2>. HIDE DEF k, t
  <2>6. k >= first /\ k >= today /\ first >= today - 1
    BY <1>9, <1>11, <2>3, <2>4, <2>5 DEF t
  <2>7. k <= today + 730
    <3>. DEFINE next == year + 1
    <3>1. next \in Int
      OBVIOUS
    <3>2. YearLength(year) + YearLength(next) <= 731
      BY DEF YearLength, IsLeap
    <3>3. /\ DaysBeforeYear(year) \in Int /\ YearLength(year) \in 365 .. 366
          /\ DaysBeforeYear(next) = DaysBeforeYear(year) + YearLength(year)
      BY NextYear
    <3>. HIDE DEF next
    <3>4. /\ YearLength(next) \in 365 .. 366
          /\ DaysBeforeYear(next + 1) = DaysBeforeYear(next) + YearLength(next)
      BY <3>1, NextYear
    <3>5. y2 = year \/ y2 = next
      BY DEF next
    <3>6. k < DaysBeforeYear(y2 + 1) /\ year + 1 = next
      BY <2>3, <2>1, <2>5, NextYear DEF next
    <3>7. k < DaysBeforeYear(next + 1)
      <4>1. CASE y2 = year
        BY <4>1, <3>1, <3>3, <3>4, <3>6, <2>5
      <4>. QED  BY <4>1, <3>5, <3>6
    <3>. QED  BY <3>2, <3>3, <3>4, <3>7, <2>5, <1>4, <1>5
  <2>8. /\ t \in Int /\ t + Offset = At(k, h, i)
        /\ HourOf(t + Offset) = h /\ MinuteOf(t + Offset) = i
        /\ YMD(t + Offset) = Calendar[k]
    BY <1>2, <2>3, <2>4, <2>5, ReadsOf
  <2>9. t \in {At(first + n, h, i) - Offset : n \in 0 .. 731}
    <3>1. k - first \in 0 .. 731 /\ first + (k - first) = k
      BY <2>5, <2>6, <2>7, <1>4, <1>7
    <3>. QED  BY <3>1, <2>3
  <2>10. YMD(t + Offset).y <= year + 1 /\ ReadsAs(t, x)
    BY <2>3, <2>8, <2>1 DEF ReadsAs, m, d, h, i
  <2>11. t >= now
    BY <1>11 DEF t
  <2>. QED  BY <1>8, <2>9, <2>10, <2>11 DEF Fits, t
<1>12. Fits(x, now) = {t \in {at(year), at(year + 1)} : t # Null /\ t >= now}
  <2>. HIDE DEF at
  <2>. QED  BY <1>10, <1>11
<1>. QED  BY <1>3, <1>12 DEF m, d, h, i

\* jstToEpoch returns a number.
LEMMA EpochIsInt ==
  ASSUME NEW y \in Int, FirstYear <= y, y <= FirstYear + Years - 11,
         NEW m \in TwoDigits, NEW d \in TwoDigits, NEW h \in TwoDigits, NEW i \in TwoDigits
  PROVE  JstToEpoch(y, m, d, h, i) \in Int
<1>1. CASE Valid(y, m, d, h, i)
  <2>. DEFINE k == DayOf(y, m, d)
  <2>1. y < FirstYear + Years
    BY JstAssumption
  <2>2. /\ k \in DaysBeforeYear(y) .. DaysBeforeYear(y + 1) - 1
        /\ JstToEpoch(y, m, d, h, i) = At(k, h, i) - Offset
        /\ Calendar[k] = [y |-> y, m |-> m, d |-> d]
    BY <1>1, <2>1, EpochOfValid
  <2>3. DaysBeforeYear(y) \in Int /\ DaysBeforeYear(y + 1) \in Int
    BY NextYear
  <2>4. k \in Int
    BY <2>2, <2>3
  <2>. HIDE DEF k
  <2>. QED  BY <2>2, <2>4, ReadsOf
<1>2. CASE ~Valid(y, m, d, h, i)
  BY <1>2, EpochOfInvalid DEF Null
<1>. QED  BY <1>1, <1>2

\* The year's before the next year's.
LEMMA YearsInOrder ==
  ASSUME NEW y \in Int, FirstYear <= y, y <= FirstYear + Years - 12,
         NEW m \in TwoDigits, NEW d \in TwoDigits, NEW h \in TwoDigits, NEW i \in TwoDigits,
         JstToEpoch(y, m, d, h, i) # Null, JstToEpoch(y + 1, m, d, h, i) # Null
  PROVE  JstToEpoch(y, m, d, h, i) < JstToEpoch(y + 1, m, d, h, i)
<1>. DEFINE next == y + 1
            k == DayOf(y, m, d)
            l == DayOf(next, m, d)
<1>1. /\ y \in Int /\ FirstYear <= y /\ y <= FirstYear + Years - 11 /\ y < FirstYear + Years
      /\ next \in Int /\ FirstYear <= next /\ next <= FirstYear + Years - 11 /\ next < FirstYear + Years
  BY JstAssumption
<1>2. DaysBeforeYear(next) \in Int /\ DaysBeforeYear(next + 1) \in Int /\ DaysBeforeYear(y) \in Int
  BY <1>1, NextYear
<1>. HIDE DEF next
<1>3. Valid(y, m, d, h, i) /\ Valid(next, m, d, h, i)
  BY <1>1, EpochOfInvalid DEF next
<1>4. /\ k \in DaysBeforeYear(y) .. DaysBeforeYear(y + 1) - 1
      /\ JstToEpoch(y, m, d, h, i) = At(k, h, i) - Offset
      /\ Calendar[k] = [y |-> y, m |-> m, d |-> d]
  BY <1>1, <1>3, EpochOfValid
<1>5. /\ l \in DaysBeforeYear(next) .. DaysBeforeYear(next + 1) - 1
      /\ JstToEpoch(next, m, d, h, i) = At(l, h, i) - Offset
      /\ Calendar[l] = [y |-> next, m |-> m, d |-> d]
  BY <1>1, <1>3, EpochOfValid
<1>. HIDE DEF k, l
<1>6. k \in Int /\ l \in Int /\ k < l
  BY <1>2, <1>4, <1>5 DEF next
<1>7. At(k, h, i) - Offset < At(l, h, i) - Offset
  BY <1>6 DEF At, Day, Hour, Offset, TwoDigits
<1>. QED  BY <1>4, <1>5, <1>7 DEF next

\* parseJst of a date and a time is the first of those, or none.
LEMMA ParseDateIsNext ==
  ASSUME NEW now \in Clocks, NEW x \in Text, x.dated
  PROVE  IF Fits(x, now) = {} THEN ParseDate(x, now) = Null
         ELSE /\ ParseDate(x, now) \in Fits(x, now)
              /\ \A t \in Fits(x, now) : ParseDate(x, now) <= t
<1>. DEFINE year == Today(now).y
            at(y) == JstToEpoch(y, x.month, x.day, x.hour, x.minute)
            a == at(year)
            b == at(year + 1)
<1>1. Fits(x, now) = {t \in {a, b} : t # Null /\ t >= now}
  BY DatedFits
<1>2. ParseDate(x, now) = IF a # Null /\ a >= now THEN a ELSE IF b # Null /\ b >= now THEN b ELSE Null
  BY DEF ParseDate
<1>3. a # Null /\ b # Null => a < b
  <2>1. year \in Int /\ FirstYear <= year /\ year <= FirstYear + Years - 12
    BY TodayIs
  <2>2. x.month \in TwoDigits /\ x.day \in TwoDigits /\ x.hour \in TwoDigits /\ x.minute \in TwoDigits
    BY DEF Text
  <2>. HIDE DEF year
  <2>. QED  BY <2>1, <2>2, YearsInOrder
<1>4. a \in Int /\ b \in Int
  <2>1. /\ year \in Int /\ FirstYear <= year /\ year <= FirstYear + Years - 11
        /\ year + 1 \in Int /\ FirstYear <= year + 1 /\ year + 1 <= FirstYear + Years - 11
    BY TodayIs, JstAssumption
  <2>2. x.month \in TwoDigits /\ x.day \in TwoDigits /\ x.hour \in TwoDigits /\ x.minute \in TwoDigits
    BY DEF Text
  <2>. HIDE DEF year
  <2>. QED  BY <2>1, <2>2, EpochIsInt
<1>. HIDE DEF a, b
<1>5. CASE a # Null /\ a >= now
  BY <1>1, <1>2, <1>3, <1>4, <1>5
<1>6. CASE ~(a # Null /\ a >= now)
  BY <1>1, <1>2, <1>3, <1>4, <1>6
<1>. QED  BY <1>5, <1>6

\* parseJst of a time is the first of today's and tomorrow's, or none.
LEMMA ParseTimeIsNext ==
  ASSUME NEW now \in Clocks, NEW x \in Text, ~x.dated
  PROVE  IF Fits(x, now) = {} THEN ParseTime(x, now) = Null
         ELSE /\ ParseTime(x, now) \in Fits(x, now)
              /\ \A t \in Fits(x, now) : ParseTime(x, now) <= t
<1>1. PICK year \in Int, month \in Int, day \in Int :
        /\ Today(now) = [y |-> year, m |-> month, d |-> day]
        /\ Shown((now + Offset) \div Day, year, month, day)
        /\ FirstYear <= year /\ year <= FirstYear + Years - 12
  BY TodayIs
<1>. DEFINE today == (now + Offset) \div Day
            h == x.hour
            i == x.minute
            first == FirstDay(now, h, i)
            t0 == JstToEpoch(year, month, day, h, i)
            at(k) == At(k, h, i) - Offset
<1>2. h \in TwoDigits /\ i \in TwoDigits
  BY DEF Text
<1>3. now \in Nat /\ today \in Nat
  BY TodayIs
<1>4. today * 2880 <= now + 1080 /\ now + 1080 < today * 2880 + 2880
  <2>1. now + 1080 \in Int /\ today = (now + 1080) \div 2880
    BY <1>3 DEF Day, Hour, Offset
  <2>. HIDE DEF today
  <2>. QED  BY <2>1, Quotient
<1>5. first \in Int /\ at(first) <= now /\ now < at(first + 1)
  BY <1>2, <1>3, FirstDayIs
<1>6. Candidates(x, now) = {t \in {at(first + n) : n \in 0 .. 1} : t >= now}
  <2>1. x.hour \in TwoDigits /\ x.minute \in TwoDigits
    BY <1>2
  <2>. HIDE DEF h, i, today
  <2>2. Candidates(x, now) = Ahead(x, now)
    BY <2>1, <1>3, CandidatesAre
  <2>. QED  BY <2>2 DEF Ahead, h, i
<1>7. ParseTime(x, now) = IF t0 = Null THEN Null ELSE IF t0 >= now THEN t0 ELSE t0 + Day
  BY <1>1 DEF ParseTime
<1>8. month \in 1 .. 12 /\ day \in 1 .. MonthLength(year, month) /\ today = DayOf(year, month, day)
  BY <1>1 DEF Shown, DayOf
<1>9. month \in TwoDigits /\ day \in TwoDigits
  <2>1. MonthLength(year, month) \in 28 .. 31
    BY <1>8, MonthsFollow
  <2>. QED  BY <2>1, <1>8 DEF TwoDigits
<1>. HIDE DEF today, h, i, first
<1>10. ASSUME NEW n \in 0 .. 1
       PROVE  ReadsAs(at(first + n), x) <=> h \in 0 .. 23 /\ i \in 0 .. 59
  <2>1. first + n \in Int
    BY <1>5
  <2>2. /\ HourOf(at(first + n) + Offset) = h /\ MinuteOf(at(first + n) + Offset) = i
             <=> h \in 0 .. 23 /\ i \in 0 .. 59
    BY <2>1, <1>2, ReadsOf
  <2>. QED  BY <2>2 DEF ReadsAs, h, i
<1>. HIDE DEF at
<1>11. Fits(x, now) = {t \in {at(first), at(first + 1)} : t >= now /\ h \in 0 .. 23 /\ i \in 0 .. 59}
  <2>1. 0 .. 1 = {0, 1} /\ first + 0 = first
    BY <1>5
  <2>2. ASSUME NEW t  PROVE t \in Fits(x, now) <=> /\ t = at(first) \/ t = at(first + 1)
                                                   /\ t >= now /\ h \in 0 .. 23 /\ i \in 0 .. 59
    BY <1>6, <1>10, <2>1 DEF Fits
  <2>. QED  BY <2>2
<1>12. CASE ~(h \in 0 .. 23 /\ i \in 0 .. 59)
  <2>1. Fits(x, now) = {}
    BY <1>11, <1>12
  <2>2. year <= FirstYear + Years - 11 /\ ~Valid(year, month, day, h, i)
    BY <1>1, <1>12, JstAssumption DEF Valid
  <2>3. t0 = Null
    BY <2>2, <1>1, <1>2, <1>9, EpochOfInvalid
  <2>. QED  BY <2>1, <2>3, <1>7
<1>13. CASE h \in 0 .. 23 /\ i \in 0 .. 59
  <2>1. Valid(year, month, day, h, i) /\ year < FirstYear + Years
    BY <1>1, <1>8, <1>13, JstAssumption DEF Valid
  <2>2. /\ DayOf(year, month, day) \in DaysBeforeYear(year) .. DaysBeforeYear(year + 1) - 1
        /\ t0 = At(DayOf(year, month, day), h, i) - Offset
        /\ Calendar[DayOf(year, month, day)] = [y |-> year, m |-> month, d |-> day]
    BY <1>1, <2>1, EpochOfValid
  <2>3. t0 = at(today)
    BY <2>2, <1>8 DEF at
  <2>4. \A k \in Int : at(k) = k * 2880 + h * 120 + i * 2 - 1080
    BY <1>13 DEF at, At, Day, Hour, Offset
  <2>5. /\ at(first) = first * 2880 + h * 120 + i * 2 - 1080
        /\ at(first + 1) = (first + 1) * 2880 + h * 120 + i * 2 - 1080
        /\ t0 = today * 2880 + h * 120 + i * 2 - 1080
    BY <2>3, <2>4, <1>3, <1>5
  <2>6. t0 # Null
    BY <2>5, <1>3, <1>13 DEF Null
  <2>7. /\ Fits(x, now) = {t \in {at(first), at(first + 1)} : t >= now}
        /\ ParseTime(x, now) = IF t0 >= now THEN t0 ELSE t0 + 2880
    BY <1>7, <1>11, <1>13, <2>6 DEF Day, Hour
  <2>. HIDE DEF t0
  <2>8. first = today \/ first = today - 1
    BY <2>5, <1>3, <1>4, <1>5, <1>13
  <2>9. CASE first = today
    BY <2>5, <2>7, <2>9, <1>3, <1>5, <1>13
  <2>10. CASE first = today - 1
    <3>1. at(first) \in Int /\ at(first) < now
      BY <2>5, <2>10, <1>3, <1>4, <1>5, <1>13
    <3>2. at(first + 1) = t0 /\ t0 \in Int /\ t0 >= now
      BY <2>5, <2>10, <1>3, <1>5, <1>13
    <3>. QED  BY <3>1, <3>2, <2>7, <1>3
  <2>. QED  BY <2>8, <2>9, <2>10
<1>. QED  BY <1>12, <1>13

\* What has been read is what parseJst returns.
JstInv == text \in Texts /\ clock \in Clocks /\ fireAt \in {Unread, ParseJst(text, clock)}

\* And this is the first instant the text can mean.
LEMMA JstInvSays == JstInv => ParsedIsNext
<1>. SUFFICES ASSUME JstInv, fireAt # Unread
              PROVE  LET fits == {t \in Candidates(text, clock) : ReadsAs(t, text)}
                     IN IF fits = {} THEN fireAt = Null
                        ELSE fireAt \in fits /\ \A t \in fits : fireAt <= t
  BY DEF ParsedIsNext
<1>1. text \in Text /\ clock \in Clocks /\ fireAt = ParseJst(text, clock)
  BY JstAssumption DEF JstInv
<1>2. IF Fits(text, clock) = {} THEN fireAt = Null
      ELSE fireAt \in Fits(text, clock) /\ \A t \in Fits(text, clock) : fireAt <= t
  <2>1. CASE text.dated
    BY <1>1, <2>1, ParseDateIsNext DEF ParseJst
  <2>2. CASE ~text.dated
    BY <1>1, <2>2, ParseTimeIsNext DEF ParseJst
  <2>. QED  BY <2>1, <2>2
<1>. QED  BY <1>2 DEF Fits

\* It stays so as a text is read.
LEMMA JstInvNext == JstInv /\ [Parse]_jstVars => JstInv'
<1>. SUFFICES ASSUME JstInv, [Parse]_jstVars  PROVE JstInv'
  OBVIOUS
<1>1. text' = text /\ clock' = clock /\ fireAt' \in {fireAt, ParseJst(text, clock)}
  BY DEF Parse, jstVars
<1>2. ParseJst(text, clock)' = ParseJst(text, clock)
  BY <1>1
<1>. QED  BY <1>1, <1>2 DEF JstInv

\* The time of /remind means the first instant that is not past, and none if
\* there is none, for any date and time of two digits each, in any year of any
\* calendar (parseJst, jstToEpoch).
THEOREM TimesAreNext == JstSpec => []ParsedIsNext
<1>1. JstInit => JstInv
  BY DEF JstInit, JstInv
<1>. QED  BY <1>1, JstInvNext, JstInvSays, PTL DEF JstSpec

-----------------------------------------------------------------------------
(* The web admin as a whole, of which a behaviour shows one part.            *)

TimeInv == IF part = "jst" THEN JstInv ELSE fireAt = Unread

AdminInv == SyncInv /\ LoginInv /\ PageInv /\ ProfileInv /\ TimeInv

\* A step is one of one part, and the others stand still.
LEMMA OnePartMoves ==
  [MCNext]_allVars => /\ [Next]_vars /\ [SessionsStep]_sessionVars
                      /\ [PageStep]_pageVars /\ [ProfileStep]_profileVars
                      /\ [part = "jst" /\ Parse]_jstVars /\ part' = part
BY DEF MCNext, SyncPart, allVars, jstVars

\* What has been read stays what parseJst returns.
LEMMA TimeInvNext == TimeInv /\ [MCNext]_allVars => TimeInv'
<1>. SUFFICES ASSUME TimeInv, [MCNext]_allVars  PROVE TimeInv'
  OBVIOUS
<1>1. [part = "jst" /\ Parse]_jstVars /\ part' = part
  BY OnePartMoves
<1>2. CASE part = "jst"
  BY <1>1, <1>2, JstInvNext DEF TimeInv
<1>3. CASE part # "jst"
  BY <1>1, <1>3 DEF TimeInv, jstVars
<1>. QED  BY <1>2, <1>3

\* The invariant of the whole.
LEMMA AdminInvariance == MCSpec => []AdminInv
<1>1. MCInit => AdminInv
  <2>1. MCInit => TimeInv
    BY DEF MCInit, TimeInv, JstInit, JstInv
  <2>. QED  BY <2>1, SyncInvInit, LoginInvInit, PageInvInit, ProfileInvInit
            DEF MCInit, AdminInv
<1>2. AdminInv /\ [MCNext]_allVars => AdminInv'
  BY OnePartMoves, SyncInvNext, LoginInvNext, PageInvNext, ProfileInvNext, TimeInvNext
     DEF AdminInv
<1>. QED  BY <1>1, <1>2, PTL DEF MCSpec

\* The states of all parts are of their types, and what the bot gives was
\* vouched for.
THEOREM AdminIsSafe == MCSpec => []AdminSafe
<1>1. AdminInv => AdminSafe
  BY DEF AdminInv, AdminSafe, SyncInv, LoginInv, PageInv, ProfileInv, AllVouched
<1>. QED  BY <1>1, AdminInvariance, PTL

\* And so for what the parts say of every state.
THEOREM AdminKeepsItsPromises ==
  MCSpec => [](StayersServed /\ SessionLivesItsTerm /\ OnlyOwnLogins
               /\ SettingsStayHome /\ ListIsCurrent /\ ParsedIsNext)
<1>1. AdminInv => /\ StayersServed /\ SessionLivesItsTerm /\ OnlyOwnLogins
                  /\ SettingsStayHome /\ ListIsCurrent
  BY SyncInvSays, LoginInvSays DEF AdminInv, PageInv, AtHome, ListsAreCurrent
<1>2. AdminInv => ParsedIsNext
  BY JstInvSays DEF AdminInv, TimeInv, ParsedIsNext
<1>. QED  BY <1>1, <1>2, AdminInvariance, PTL

\* And of every write: what is stored was checked, and what Discord gets of the
\* looks of the bot is what was entered.
THEOREM AdminWritesWhatWasMeant == MCSpec => StoredWasChecked /\ OnlyWhatWasEntered
<1>1. [MCNext]_allVars => [Next]_vars /\ [ProfileStep]_profileVars
  BY OnePartMoves
<1>2. AdminInv => SyncInv /\ ProfileInv
  BY DEF AdminInv
<1>. QED  BY <1>1, <1>2, SyncInvSays, ProfileSaves, AdminInvariance, PTL
             DEF MCSpec, StoredWasChecked, OnlyWhatWasEntered
=============================================================================
