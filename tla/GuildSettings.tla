--------------------------- MODULE GuildSettings ---------------------------
(***************************************************************************)
(* The rules of the role synchronisation of one guild, as administrators    *)
(* edit them (connect: functions/settings.ts, access.server.ts,             *)
(* guild-settings.server.ts, settings.server.ts) and the guild at Discord   *)
(* that they are judged by (discord.server.ts).                             *)
(*                                                                         *)
(* A save awaits Discord once for the access check and once per target that *)
(* must be grantable; what it read before is used after, while members and  *)
(* roles change and other saves are written.  A role's position and         *)
(* permissions are fixed; who has it, and whether it exists, is not.        *)
(***************************************************************************)
EXTENDS Naturals, Sequences

CONSTANTS Members,    \* ids of members, which are ordered
          Users,      \* the members who use the web admin
          Owner,      \* the owner of the guild
          Roles,      \* neither @everyone nor managed ones
          Perms,      \* Perms[r]: the permissions of a role
          Position,   \* Position[r]: its place in the hierarchy, above 0
          Configs,    \* lists of rules that the page may put together
          MaxSaves,   \* bound: saves
          MaxChanges  \* bound: what happens to the guild

ASSUME GuildAssumption ==
  /\ Members \subseteq Nat \ {0}
  /\ Users \subseteq Members
  /\ Position \in [Roles -> Nat \ {0}]
  /\ <<>> \in Configs
  /\ Configs \subseteq Seq([sources : (SUBSET Roles) \ {{}}, target : Roles])
ASSUME BoundAssumption == MaxSaves \in Nat /\ MaxChanges \in Nat

VARIABLES held,      \* held[m]: the roles of a member; DOMAIN: who is in
          roles,     \* the roles there are
          settings,  \* the guild's row for rolesync
          saving,    \* saving[u]: the save of an administrator
          changes, saves

\* What an observer remembers.
VARIABLES seen,     \* seen[u]: what was true at some time during u's save
          vouched   \* roles somebody could have granted while asking for them

world == <<held, roles, changes>>
settingsVars == <<world, settings, saving, saves, seen, vouched>>

NoSave == [stage |-> "none"]
Nothing == [admin |-> FALSE, roles |-> {}, may |-> {}]

\* features.ts: without a row rolesync is off and has no rules.
Default == [enabled |-> FALSE, rules |-> <<>>]

Body == [enabled : BOOLEAN, rules : Configs]
TargetsOf(rules) == {rules[i].target : i \in 1 .. Len(rules)}

TypeOK ==
  /\ DOMAIN held \subseteq Members
  /\ roles \subseteq Roles
  /\ \A m \in DOMAIN held : held[m] \subseteq roles
  /\ settings \in Body
  /\ saving \in [Users -> {NoSave} \cup [stage : {"access"}, body : Body]
       \cup [stage : {"grant"}, body : Body, at : Nat,
             known : SUBSET Roles, saved : SUBSET Roles]]
  /\ seen \in [Users -> [admin : BOOLEAN, roles : SUBSET Roles,
                         may : SUBSET Roles]]
  /\ vouched \subseteq Roles
  /\ changes \in 0 .. MaxChanges /\ saves \in 0 .. MaxSaves

SettingsInit ==
  /\ held \in [Members -> SUBSET Roles]
  /\ roles = Roles
  /\ settings = Default
  /\ saving = [u \in Users |-> NoSave]
  /\ seen = [u \in Users |-> Nothing]
  /\ vouched = {}
  /\ changes = 0
  /\ saves = 0

-----------------------------------------------------------------------------
(* What Discord knows of a member.                                          *)

\* PermissionsBitField.has: the owner and administrators have them all.
Has(u, p) ==
  /\ u \in DOMAIN held
  /\ u = Owner \/ \E r \in held[u] : {p, "Administrator"} \cap Perms[r] # {}

\* member.roles.highest; @everyone is at 0.
Highest(u) == CHOOSE n \in {0} \cup {Position[r] : r \in held[u]} :
                \A r \in held[u] : Position[r] <= n

\* canGrantRole once the member is fetched.
CanGrant(u, r) ==
  /\ u \in DOMAIN held
  /\ \/ u = Owner
     \/ /\ Has(u, "ManageRoles")
        /\ Position[r] < Highest(u)
        /\ \A p \in Perms[r] : Has(u, p)

-----------------------------------------------------------------------------
(* Somebody changes the guild, through Discord.                             *)

GiveOrTake(m) ==
  /\ m \in DOMAIN held
  /\ \E rs \in SUBSET roles :
       /\ rs # held[m]
       /\ held' = [held EXCEPT ![m] = rs]
  /\ UNCHANGED roles

Leave(m) ==
  /\ m \in DOMAIN held
  /\ held' = [n \in DOMAIN held \ {m} |-> held[n]]
  /\ UNCHANGED roles

Join(m) ==
  /\ m \in Members \ DOMAIN held
  /\ held' = [n \in DOMAIN held \cup {m} |-> IF n = m THEN {} ELSE held[n]]
  /\ UNCHANGED roles

DeleteRole(r) ==
  /\ r \in roles
  /\ roles' = roles \ {r}
  /\ held' = [m \in DOMAIN held |-> held[m] \ {r}]

Change ==
  /\ changes < MaxChanges
  /\ changes' = changes + 1
  /\ \/ \E m \in Members : GiveOrTake(m) \/ Leave(m) \/ Join(m)
     \/ \E r \in Roles : DeleteRole(r)
  /\ UNCHANGED <<settings, saving, saves>>

-----------------------------------------------------------------------------
(* putSettings.                                                             *)

\* The request has a session and the right shape; it awaits the access check.
Put(u, body) ==
  /\ saving[u] = NoSave
  /\ saves < MaxSaves
  /\ saves' = saves + 1
  /\ saving' = [saving EXCEPT ![u] = [stage |-> "access", body |-> body]]
  /\ UNCHANGED <<world, settings>>

Refuse(u) ==
  /\ saving' = [saving EXCEPT ![u] = NoSave]
  /\ UNCHANGED settings

RefersTo(rule) == rule.sources \cup {rule.target}

\* Faulty: the loop of invalidReference returns after its first grant check.
CheckFirstOnly(u, body, known, saved, from) ==
  LET stops == {i \in {1} \cap (1 .. Len(body.rules)) :
                  ~ RefersTo(body.rules[i]) \subseteq known
                  \/ (from = 1 /\ body.rules[i].target \notin saved)}
  IN IF stops = {}
     THEN /\ settings' = body
          /\ saving' = [saving EXCEPT ![u] = NoSave]
     ELSE IF RefersTo(body.rules[1]) \subseteq known
     THEN /\ saving' = [saving EXCEPT ![u] =
               [stage |-> "grant", body |-> body, at |-> 1, known |-> known,
                saved |-> saved]]
          /\ UNCHANGED settings
     ELSE Refuse(u)

\* The loop of invalidReference from a rule on, up to its next await, its
\* refusal, or its end, where setSetting follows: nothing comes in between.
\* A role deleted since `known` was read is not found by canGrantRole.
CheckRules(u, body, known, saved, from) ==
  LET rule(i) == body.rules[i]
      stops == {i \in from .. Len(body.rules) :
                  ~ RefersTo(rule(i)) \subseteq known \/ rule(i).target \notin saved}
      stop == CHOOSE i \in stops : \A j \in stops : i <= j
  IN IF stops = {}
     THEN /\ settings' = body
          /\ saving' = [saving EXCEPT ![u] = NoSave]
     ELSE IF RefersTo(rule(stop)) \subseteq known /\ rule(stop).target \in roles
     THEN /\ saving' = [saving EXCEPT ![u] =
               [stage |-> "grant", body |-> body, at |-> stop, known |-> known,
                saved |-> saved]]
          /\ UNCHANGED settings
     ELSE Refuse(u)

\* Faulty: any member of the guild may save.
MemberIsAdmin(u) == u \in DOMAIN held

\* checkAccess; the list of guilds in the session plays no part.
IsAdmin(u) == Has(u, "ManageGuild")

\* The access check is answered; a fetch that fails counts as forbidden.
AccessAnswered(u) ==
  /\ saving[u].stage = "access"
  /\ \/ Refuse(u)
     \/ /\ IsAdmin(u)
        /\ CheckRules(u, saving[u].body, roles, TargetsOf(settings.rules), 1)
  /\ UNCHANGED <<world, saves>>

\* canGrantRole is answered for the rule the loop waits at.
GrantAnswered(u) ==
  LET s == saving[u] IN
  /\ s.stage = "grant"
  /\ \/ Refuse(u)
     \/ /\ CanGrant(u, s.body.rules[s.at].target)
        /\ CheckRules(u, s.body, s.known, s.saved, s.at + 1)
  /\ UNCHANGED <<world, saves>>

SettingsStep ==
  \/ Change
  \/ \E u \in Users : \/ \E body \in Body : Put(u, body)
                      \/ AccessAnswered(u)
                      \/ GrantAnswered(u)

-----------------------------------------------------------------------------
(* What the observer sees in a state, here written with primes.             *)

AskedBy(u) == TargetsOf(saving'[u].body.rules)

Grantable(u) == {r \in Roles : CanGrant(u, r)}

Observe ==
  /\ seen' = [u \in Users |->
       IF saving'[u] = NoSave THEN Nothing
       ELSE [admin |-> seen[u].admin \/ Has(u, "ManageGuild")',
             roles |-> seen[u].roles \cup roles',
             may |-> seen[u].may
                     \cup ((TargetsOf(settings.rules) \cup Grantable(u))'
                           \cap AskedBy(u))]]
  /\ vouched' = vouched \cup
       UNION {Grantable(u)' \cap AskedBy(u) :
                u \in {w \in Users : saving'[w] # NoSave}}

-----------------------------------------------------------------------------
(* Correctness.                                                             *)

\* README, the web admin's rights are judged at every request; comment of
\* invalidReference: rules refer to this guild, and their targets are what
\* the writer may grant or what was in force.  With awaits in between, each of
\* the three was true at some time during the very request that is written.
StoredWasChecked ==
  [][settings' # settings =>
       \E u \in Users :
         /\ saving[u] # NoSave /\ saving'[u] = NoSave
         /\ settings' = saving[u].body
         /\ seen[u].admin
         /\ UNION {RefersTo(settings'.rules[i]) : i \in 1 .. Len(settings'.rules)}
              \subseteq seen[u].roles
         /\ TargetsOf(settings'.rules) \subseteq seen[u].may]_settingsVars
=============================================================================
