----------------------------- MODULE StatusView -----------------------------
(***************************************************************************)
(* The top page of status-page/web in a browser, from the checker's writes  *)
(* on: the cached queries of lib/db.ts, the page of app/page.tsx, which is  *)
(* cached too, AutoRefresh, and the range of HistoryProvider.               *)
(*                                                                         *)
(* A unit of time is a minute, in which the browser refreshes at least once. *)
(* Ages saturate.  Both caches serve what is old while they renew it.       *)
(***************************************************************************)
EXTENDS Naturals

CONSTANTS StaleAfter,  \* isStale: 3 minutes
          TTL,         \* CACHE_TTL and revalidate: 1 minute
          Oldest,      \* bound: where ages end
          TimeRanges,  \* "24h" is the first one
          MaxEvents    \* bound: stops, deployments, failed requests

ASSUME ViewAssumption ==
  /\ StaleAfter \in Nat /\ TTL \in Nat /\ MaxEvents \in Nat
  /\ Oldest \in Nat /\ StaleAfter < Oldest
  /\ "24h" \in TimeRanges

VARIABLES alive,      \* the checker runs
          enabled,    \* a service that config.ts has or has disabled
          newest,     \* newest snapshot: its age, whether it has the service
          disabled,   \* newest service_meta: the service is disabled
          cached,     \* the cached queries: newest, disabled, entry's age
          rendered,   \* the cached page and its age
          rendering,  \* a new one is being made
          screen,     \* what the browser has of the page
          failed,     \* it shows an error in its place
          due,        \* AutoRefresh's interval is over
          range, historyAge,  \* HistoryProvider
          pending,    \* the range that is being fetched
          events

checker == <<alive, enabled, newest, disabled>>
server == <<cached, rendered, rendering>>
shownPage == <<screen, failed>>
provider == <<range, historyAge, pending>>
viewVars == <<checker, server, shownPage, due, provider, events>>

Ages == 0 .. Oldest
NoRange == "none"
Page == [banner : BOOLEAN, listed : BOOLEAN, past : BOOLEAN]

ViewTypeOK ==
  /\ alive \in BOOLEAN /\ enabled \in BOOLEAN /\ disabled \in BOOLEAN
  /\ newest \in [age : Ages, has : BOOLEAN]
  /\ cached \in [age : Ages, has : BOOLEAN, disabled : BOOLEAN, entry : Ages]
  /\ rendered \in [page : Page, entry : Ages]
  /\ rendering \in BOOLEAN /\ due \in BOOLEAN
  /\ screen \in Page /\ failed \in BOOLEAN
  /\ range \in TimeRanges /\ historyAge \in Ages
  /\ pending \in TimeRanges \cup {NoRange}
  /\ events \in 0 .. MaxEvents

FirstPage == [banner |-> FALSE, listed |-> TRUE, past |-> FALSE]

\* A page was opened while all was well.
ViewInit ==
  /\ alive = TRUE /\ enabled = TRUE
  /\ newest = [age |-> 0, has |-> TRUE] /\ disabled = FALSE
  /\ cached = [age |-> 0, has |-> TRUE, disabled |-> FALSE, entry |-> 0]
  /\ rendered = [page |-> FirstPage, entry |-> 0]
  /\ rendering = FALSE
  /\ screen = FirstPage /\ failed = FALSE
  /\ due = FALSE
  /\ range = "24h" /\ historyAge = 0
  /\ pending = NoRange
  /\ events = 0

Event == events < MaxEvents /\ events' = events + 1

-----------------------------------------------------------------------------
(* The checker and its database.                                            *)

Older(age) == IF age < Oldest THEN age + 1 ELSE age

MinutePasses ==
  /\ ~ due /\ ~ rendering
  /\ newest' = IF alive THEN [age |-> 0, has |-> enabled]
               ELSE [newest EXCEPT !.age = Older(@)]
  /\ cached' = [cached EXCEPT !.age = Older(@), !.entry = Older(@)]
  /\ rendered' = [rendered EXCEPT !.entry = Older(@)]
  /\ historyAge' = Older(historyAge)
  /\ due' = TRUE
  /\ UNCHANGED <<alive, enabled, disabled, rendering, shownPage, range, pending,
                 events>>

CheckerStops ==
  /\ Event
  /\ alive /\ alive' = FALSE
  /\ UNCHANGED <<enabled, newest, disabled, server, shownPage, due, provider>>

\* A deployment, of another config.ts or not; syncServiceMeta runs first.
CheckerStarts ==
  /\ Event
  /\ alive' = TRUE
  /\ enabled' \in BOOLEAN
  /\ disabled' = ~ enabled'
  /\ UNCHANGED <<newest, server, shownPage, due, provider>>

-----------------------------------------------------------------------------
(* The server.                                                              *)

\* Faulty: without `revalidate` the page is made once.
NeverExpired(entry) == FALSE

IsExpired(entry) == entry >= TTL

IsStale(age) == age > StaleAfter

\* Services of the snapshot are listed, those disabled in the meta are past.
\* newest is null when the snapshot has no services: others are always there.
Home == [banner |-> IsStale(cached.age), listed |-> cached.has,
         past |-> cached.disabled]

\* The queries answer from their cache, and renew it when it is old.
Render ==
  /\ rendering
  /\ rendering' = FALSE
  /\ rendered' = [page |-> Home, entry |-> 0]
  /\ cached' = IF IsExpired(cached.entry)
               THEN [age |-> newest.age, has |-> newest.has,
                     disabled |-> disabled, entry |-> 0]
               ELSE cached
  /\ UNCHANGED <<checker, shownPage, due, provider, events>>

-----------------------------------------------------------------------------
(* The browser.                                                             *)

\* router.refresh(): the page is served as it is, and made anew when old.
\* HistoryProvider keeps its state, whatever its props are now.
Refresh ==
  /\ due /\ due' = FALSE
  /\ screen' = IF failed THEN screen ELSE rendered.page
  /\ rendering' = (rendering \/ (~ failed /\ IsExpired(rendered.entry)))
  /\ UNCHANGED <<checker, cached, rendered, failed, provider, events>>

\* setRange: the buttons are disabled while a transition is pending, and
\* setRangeState comes with the data.
Click(r) ==
  /\ ~ failed
  /\ pending = NoRange
  /\ r # range
  /\ pending' = r
  /\ UNCHANGED <<checker, server, shownPage, due, range, historyAge, events>>

\* /api/history
HistoryArrives ==
  /\ pending # NoRange
  /\ pending' = NoRange
  /\ range' = pending /\ historyAge' = 0
  /\ UNCHANGED <<checker, server, shownPage, due, events>>

\* The action of a transition throws: React shows an error for the page.
HistoryFails ==
  /\ Event
  /\ pending # NoRange
  /\ pending' = NoRange
  /\ failed' = TRUE
  /\ UNCHANGED <<checker, server, screen, due, range, historyAge>>

ViewStep ==
  \/ MinutePasses \/ CheckerStops \/ CheckerStarts
  \/ Render \/ Refresh
  \/ \E r \in TimeRanges : Click(r)
  \/ HistoryArrives \/ HistoryFails

\* Time goes on, the timer of AutoRefresh fires, the server answers.
ViewFairness ==
  WF_viewVars(MinutePasses) /\ WF_viewVars(Refresh) /\ WF_viewVars(Render)

ViewSpec == ViewInit /\ [][ViewStep]_viewVars /\ ViewFairness

-----------------------------------------------------------------------------
(* Correctness.                                                             *)

\* README, a warning when the last check is more than 3 minutes old, and a
\* disabled service is no longer listed but among the past ones: through three
\* caches that each serve what is old, the page on screen comes to say so when
\* the checker stays silent, takes it back when it stays up, and follows the
\* last configuration; unless the page itself has failed.
PageCatchesUp ==
  LET shows(field, value) == failed \/ screen[field] = value
  IN /\ <>[](~ alive) => <>[]shows("banner", TRUE)
     /\ <>[]alive => <>[](/\ shows("banner", FALSE)
                          /\ shows("listed", enabled)
                          /\ shows("past", ~ enabled))

\* README, the top page with its bars and charts renews itself every 30
\* seconds: they never get older than a status may without a warning.
HistoryIsRenewed == ~ failed => historyAge <= StaleAfter
=============================================================================
