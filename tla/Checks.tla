------------------------------- MODULE Checks -------------------------------
(***************************************************************************)
(* One pass of the health checker over its services (health-checker:        *)
(* checks.ts, proxmox.ts, tick of index.ts): every service is checked and   *)
(* asked for its resources at the same time, and the snapshot waits for all *)
(* of them.  What the services answer, and when, is open.                   *)
(***************************************************************************)
EXTENDS Naturals, FiniteSets, TLC

CONSTANTS Services,    \* the enabled ones
          Type,        \* Type[s]: "http", "tcp", "ping" or "docker"
          OkStatuses,  \* OkStatuses[s]: of an http check, {} when any will do
          Statuses,    \* of HTTP answers
          Guests       \* the services with resources at Proxmox

VARIABLES check,     \* check[s]: "pending" or the verdict it resolved to
          timer,     \* timer[s]: "on", "off" or "fired"
          socket,    \* socket[s]: of a tcp check, or of a request
          resource,  \* resource[s]: "pending", "stats" or "null"
          snapshot,  \* what tick writes

          answered   \* observer: services that answered well in time

checkVars == <<check, timer, socket, resource, snapshot, answered>>

Verdicts == {"up", "down"}
NoSnapshot == <<>>

ChecksTypeOK ==
  /\ check \in [Services -> {"pending"} \cup Verdicts]
  /\ timer \in [Services -> {"on", "off", "fired"}]
  /\ socket \in [Services -> {"connecting", "open", "closed"}]
  /\ resource \in [Services -> {"pending", "stats", "null"}]
  /\ answered \subseteq Services

\* Every check arms a timeout, ping's own -W included.
ChecksInit ==
  /\ check = [s \in Services |-> "pending"]
  /\ timer = [s \in Services |-> "on"]
  /\ socket = [s \in Services |-> "connecting"]
  /\ resource = [s \in Services |-> IF s \in Guests THEN "pending" ELSE "null"]
  /\ snapshot = NoSnapshot
  /\ answered = {}

-----------------------------------------------------------------------------

\* A promise keeps what it was resolved to first.
Resolve(s, verdict) ==
  check' = IF check[s] = "pending" THEN [check EXCEPT ![s] = verdict] ELSE check

Note(s, good) ==
  answered' = IF good /\ timer[s] = "on" THEN answered \cup {s} ELSE answered

\* Faulty: a connection that comes after the timeout is kept.
KeepLate(s) == IF timer[s] = "on" THEN "closed" ELSE "open"

\* s.end(), at once or by an open() that comes after the timeout.
AfterOpen(s) == "closed"

TcpOpens(s) ==
  /\ Type[s] = "tcp" /\ socket[s] = "connecting"
  /\ timer' = [timer EXCEPT ![s] = IF @ = "on" THEN "off" ELSE @]
  /\ socket' = [socket EXCEPT ![s] = AfterOpen(s)]
  /\ Resolve(s, "up")
  /\ Note(s, TRUE)
  /\ UNCHANGED <<resource, snapshot>>

\* error() or the promise of connect.
TcpFails(s) ==
  /\ Type[s] = "tcp" /\ socket[s] = "connecting"
  /\ timer' = [timer EXCEPT ![s] = IF @ = "on" THEN "off" ELSE @]
  /\ socket' = [socket EXCEPT ![s] = "closed"]
  /\ Resolve(s, "down")
  /\ UNCHANGED <<resource, snapshot, answered>>

\* The timer of tcpCheck has no socket to end while connecting; that of a
\* request aborts it, and ping gives up.
TimesOut(s) ==
  /\ timer[s] = "on"
  /\ timer' = [timer EXCEPT ![s] = "fired"]
  /\ socket' = IF Type[s] = "tcp" THEN socket
               ELSE [socket EXCEPT ![s] = "closed"]
  /\ Resolve(s, "down")
  /\ UNCHANGED <<resource, snapshot, answered>>

Settles(s, good) ==
  /\ socket[s] = "connecting" /\ timer[s] = "on"
  /\ timer' = [timer EXCEPT ![s] = "off"]
  /\ socket' = [socket EXCEPT ![s] = "closed"]
  /\ Resolve(s, IF good THEN "up" ELSE "down")
  /\ UNCHANGED <<resource, snapshot>>

\* Faulty: only the statuses of the list are asked for, and there may be none.
OnlyListed(s, status) == status \in OkStatuses[s]

\* Without okStatuses every answer will do.
IsOk(s, status) == OkStatuses[s] # {} => status \in OkStatuses[s]

HttpAnswers(s) ==
  /\ Type[s] = "http"
  /\ \E status \in Statuses :
       /\ Settles(s, IsOk(s, status))
       /\ Note(s, OkStatuses[s] = {} \/ status \in OkStatuses[s])

\* The container is there, it runs, and it is healthy or has no such check.
DockerAnswers(s) ==
  /\ Type[s] = "docker"
  /\ \E found, running \in BOOLEAN, health \in {"", "healthy", "starting"} :
       LET good == found /\ running /\ health \in {"", "healthy"}
       IN Settles(s, good) /\ Note(s, good)

PingExits(s) ==
  /\ Type[s] = "ping"
  /\ \E code \in {0, 1} : Settles(s, code = 0) /\ Note(s, code = 0)

\* The request fails; or ping cannot be started, and allSettled has a reason.
RequestFails(s) ==
  /\ Type[s] # "tcp"
  /\ Settles(s, FALSE)
  /\ UNCHANGED answered

\* fetchResourceStats: data, or null after an error or 5 seconds.
ResourcesArrive(s) ==
  /\ resource[s] = "pending"
  /\ \E r \in {"stats", "null"} : resource' = [resource EXCEPT ![s] = r]
  /\ UNCHANGED <<check, timer, socket, snapshot, answered>>

Written(s) == [status |-> check[s], hasStats |-> resource[s] = "stats"]

\* Promise.all: everything has settled.
WriteSnapshot ==
  /\ snapshot = NoSnapshot
  /\ \A s \in Services : check[s] # "pending" /\ resource[s] # "pending"
  /\ snapshot' = [s \in Services |-> Written(s)]
  /\ UNCHANGED <<check, timer, socket, resource, answered>>

Timeouts == \E s \in Services : TimesOut(s) \/ ResourcesArrive(s)
Connections == \E s \in Services : TcpOpens(s) \/ TcpFails(s)
Answers == \E s \in Services : \/ HttpAnswers(s) \/ DockerAnswers(s)
                               \/ PingExits(s) \/ RequestFails(s)

ChecksStep == Timeouts \/ Connections \/ Answers \/ WriteSnapshot

\* Timers fire, the operating system decides about a connection, the loop goes
\* on; services need not answer.
ChecksFairness == /\ WF_checkVars(Timeouts)
                  /\ WF_checkVars(Connections)
                  /\ WF_checkVars(WriteSnapshot)

ChecksSpec == ChecksInit /\ [][ChecksStep]_checkVars /\ ChecksFairness

-----------------------------------------------------------------------------
(* Correctness.                                                             *)

\* README, the kinds of check: a snapshot says "up" of just the services that
\* answered as their kind demands before their timeout, however late answers
\* and timeouts come together; the service's resources are its own matter.
SnapshotIsTrue ==
  snapshot # NoSnapshot =>
    \A s \in Services : snapshot[s].status = "up" <=> s \in answered

\* The timer of tcpCheck: the pass always comes to its snapshot, without an
\* answer of any service, and every connection that opens is ended, also one
\* that opens when nobody waits for it any more.
PassEnds == <>[](snapshot # NoSnapshot /\ \A s \in Services : socket[s] = "closed")
=============================================================================
