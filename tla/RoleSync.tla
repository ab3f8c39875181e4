----------------------------- MODULE RoleSync ------------------------------
(***************************************************************************)
(* The role synchronisation of connect (features/rolesync.ts) beside the    *)
(* saves of GuildSettings: every 15 minutes the members are listed page by  *)
(* page and get the targets of the rules as they were when the scan began.  *)
(*                                                                         *)
(* A listed member is the cached one, so its roles are those it has when    *)
(* the scan comes to it; between two awaits the code runs through.  The     *)
(* order in which one member gets several roles is left open.               *)
(***************************************************************************)
EXTENDS GuildSettings, FiniteSets

CONSTANTS PageSize,     \* members per request, 1000 in the code
          BotPosition,  \* the place of the bot's own role
          MaxFailures   \* bound: requests that fail, stops of the process

ASSUME PageAssumption ==
  /\ IsFiniteSet(Members)
  /\ PageSize \in Nat \ {0} /\ BotPosition \in Nat /\ MaxFailures \in Nat

VARIABLES scan,      \* where run() is
          failures

\* What an observer remembers.
VARIABLES owed,     \* <<member, role>>: eligible since the scan began
          granted   \* roles the bot has given

syncVars == <<scan, failures, owed, granted>>
vars == <<settingsVars, syncVars>>

Waiting == [stage |-> "waiting"]

SyncTypeOK ==
  /\ scan \in {Waiting}
       \cup [stage : {"listing"}, rules : Configs, after : Nat]
       \cup [stage : {"adding"}, rules : Configs, page : Seq(Members),
             last : Nat, full : BOOLEAN, adds : SUBSET Roles]
  /\ failures \in 0 .. MaxFailures
  /\ owed \subseteq Members \X Roles
  /\ granted \subseteq Roles

Init ==
  /\ SettingsInit
  /\ scan = Waiting
  /\ failures = 0
  /\ owed = {}
  /\ granted = {}

-----------------------------------------------------------------------------

RangeOf(s) == {s[i] : i \in 1 .. Len(s)}

\* The targets of the rules a member with these roles has a source of.
RolesToAdd(own, rules) ==
  {rule.target : rule \in {x \in RangeOf(rules) :
     x.target \notin own /\ x.sources \cap own # {}}}

\* Members who lack a target, in a state or in the next one.
Eligible(h, rules) ==
  UNION {{m} \X RolesToAdd(h[m], rules) : m \in DOMAIN h}

\* page.size < PAGE_SIZE is the last page.
IsFull(size) == size >= PageSize

\* Faulty: the members are listed by offset; `after` counts those behind us.
RestByOffset(after) ==
  {m \in DOMAIN held : Cardinality({n \in DOMAIN held : n <= m}) > after}

\* members.list({ limit, after }): the next members by id.
Rest(after) == {m \in DOMAIN held : m > after}
Before(S, m) == Cardinality({n \in S : n < m})
Smaller(a, b) == IF a <= b THEN a ELSE b

NextPage(after) ==
  [i \in 1 .. Smaller(PageSize, Cardinality(Rest(after))) |->
     CHOOSE m \in Rest(after) : Before(Rest(after), m) = i - 1]

\* The code goes on to the first member left on the page who lacks a role,
\* with the roles h that members have by now; at the end of the page it asks
\* for the next one or is done.
Walk(rules, page, last, full, h) ==
  LET todo == {i \in 1 .. Len(page) : page[i] \in DOMAIN h
                                      /\ RolesToAdd(h[page[i]], rules) # {}}
      first == CHOOSE i \in todo : \A j \in todo : i <= j
  IN IF todo # {}
     THEN [stage |-> "adding", rules |-> rules, last |-> last, full |-> full,
           page |-> SubSeq(page, first, Len(page)),
           adds |-> RolesToAdd(h[page[first]], rules)]
     ELSE IF full
     THEN [stage |-> "listing", rules |-> rules, after |-> last]
     ELSE Waiting

\* listEnabled, and the guilds without rules left out.
IsListed == settings.enabled /\ settings.rules # <<>>

\* The timer of loop() runs out, or the bot is ready; run() asks for a page.
BeginScan ==
  /\ scan = Waiting
  /\ IsListed
  /\ scan' = [stage |-> "listing", rules |-> settings.rules, after |-> 0]
  /\ owed' = Eligible(held, settings.rules)
  /\ UNCHANGED <<world, settings, saving, saves, failures, granted>>

PageArrives ==
  /\ scan.stage = "listing"
  /\ LET page == NextPage(scan.after)
         last == IF page = <<>> THEN scan.after ELSE page[Len(page)]
     IN scan' = Walk(scan.rules, page, last, IsFull(Len(page)), held)
  /\ UNCHANGED <<world, settings, saving, saves, failures, granted>>

\* Faulty: the error leaves run(), and loop() never sets its timer.
LoopEnds == [stage |-> "ended"]

\* run() catches the error, which ends the scan; loop() sets its timer.
AfterError == Waiting

ListFails ==
  /\ scan.stage = "listing"
  /\ failures < MaxFailures
  /\ failures' = failures + 1
  /\ scan' = AfterError
  /\ UNCHANGED <<world, settings, saving, saves, granted>>

AfterAdd(r, h) ==
  LET rest == scan.adds \ {r}
  IN IF rest # {} THEN [scan EXCEPT !.adds = rest]
     ELSE Walk(scan.rules, Tail(scan.page), scan.last, scan.full, h)

\* Discord lets the bot give what is below its own role.
CanAdd(m, r) == m \in DOMAIN held /\ r \in roles /\ Position[r] < BotPosition

AddRole(r) ==
  /\ scan.stage = "adding"
  /\ r \in scan.adds
  /\ LET m == Head(scan.page) IN
       /\ CanAdd(m, r)
       /\ held' = [held EXCEPT ![m] = @ \cup {r}]
       /\ scan' = AfterAdd(r, held')
  /\ granted' = granted \cup {r}
  /\ UNCHANGED <<settings, saving, saves, roles, changes, failures>>

\* The error is logged and the next role is tried.
AddFails(r) ==
  /\ scan.stage = "adding"
  /\ r \in scan.adds
  /\ \/ ~ CanAdd(Head(scan.page), r) /\ UNCHANGED failures
     \/ failures < MaxFailures /\ failures' = failures + 1
  /\ scan' = AfterAdd(r, held)
  /\ UNCHANGED <<world, settings, saving, saves, granted>>

\* The process stops: requests and the scan are gone, the table is not.
Crash ==
  /\ failures < MaxFailures
  /\ failures' = failures + 1
  /\ scan' = Waiting
  /\ saving' = [u \in Users |-> NoSave]
  /\ UNCHANGED <<world, settings, saves, granted>>

\* What is still owed: not what failed, nor to who became ineligible meanwhile.
StillOwed(excused) ==
  owed' = IF owed = {} THEN {}
          ELSE (owed \ excused) \cap Eligible(held', scan.rules)

ScanStep ==
  \/ BeginScan
  \/ PageArrives /\ StillOwed({})
  \/ ListFails /\ StillOwed(owed)
  \/ \E r \in Roles : \/ AddRole(r) /\ StillOwed({})
                      \/ AddFails(r) /\ StillOwed({<<Head(scan.page), r>>})

Next ==
  /\ \/ SettingsStep /\ StillOwed({}) /\ UNCHANGED <<scan, failures, granted>>
     \/ ScanStep
     \/ Crash /\ StillOwed(owed)
  /\ Observe

\* The scan's requests are answered and its timer runs.  Administrators and
\* Discord owe nothing.
Fairness == WF_vars(ScanStep /\ Observe)

Spec == Init /\ [][Next]_vars /\ Fairness

-----------------------------------------------------------------------------
(* Correctness.                                                             *)

\* README, "the bot's permissions are not used to give what the author of the
\* rule could not": whatever is in force or was given by the bot was, at some
\* time, grantable for an administrator who was asking for it.  It survives
\* saved targets that are not judged again, and saves whose `saved` is stale.
GrantsVouched == granted \cup TargetsOf(settings.rules) \subseteq vouched

\* PAGE_SIZE and `after`: whoever is in the guild, has a source and lacks the
\* target during a whole scan is served by it, whoever else joins, leaves or
\* changes roles between its pages, unless a request failed.
StayersServed == scan = Waiting => owed = {}

Reachable(rules) == {p \in Eligible(held, rules) : CanAdd(p[1], p[2])}

\* README, "every 15 minutes all members": when failures and changes cease,
\* nobody is left without a role the rules in force promise, chains of rules
\* included.
EventuallySynced ==
  <>[](settings.enabled => Reachable(settings.rules) = {})
=============================================================================
