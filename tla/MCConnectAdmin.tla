--------------------------- MODULE MCConnectAdmin ---------------------------
(***************************************************************************)
(* The web admin of connect on a small instance.  Role synchronisation      *)
(* beside the saves of its settings is one part; login, the page of a       *)
(* guild, the profile form and the time format share no state with it or    *)
(* with one another, so a behaviour is one of one part, chosen at its start. *)
(***************************************************************************)
EXTENDS RoleSync, Sessions, GuildPage, ProfileForm, Jst, TLC

CONSTANTS Mod, Helper, Guest

VARIABLE part

allVars == <<part, vars, sessionVars, pageVars, profileVars, jstVars>>

\* Who holds Mod manages the guild; nobody below its owner can grant Mod.
MCPerms == (Mod :> {"ManageGuild", "ManageRoles"}) @@ (Helper :> {}) @@ (Guest :> {})
MCPosition == (Mod :> 3) @@ (Helper :> 2) @@ (Guest :> 1)
MCConfigs ==
  LET toHelper == [sources |-> {Guest}, target |-> Helper]
      toMod == [sources |-> {Helper}, target |-> Mod]
  IN {<<>>, <<toMod>>, <<toHelper, toMod>>}

MCGuildOf == (1 :> "A") @@ (2 :> "B")

\* The turns of two years, of which 2028 is a leap year, and a leap day.
MCClocks ==
  {UTC(y, d[1], d[2], h, m) + s - Offset :
     y \in {2027, 2028}, d \in {<<1, 1>>, <<2, 28>>, <<2, 29>>, <<12, 31>>},
     h \in {0, 23}, m \in {0, 59}, s \in {0, 1}}
MCTexts ==
  {Date(month, day, h, m) : month \in {0, 2, 12, 13}, day \in {0, 1, 29, 31},
                            h \in {0, 24}, m \in {0, 60}}
    \cup {Time(h, m) : h \in {0, 8, 9, 23, 24}, m \in {0, 59, 60}}

MCInit ==
  /\ part \in {"sync", "login", "page", "profile", "jst"}
  /\ Init /\ held = (1 :> {Mod}) @@ (2 :> {}) @@ (3 :> {Guest})
  /\ SessionsInit
  /\ PageInit
  /\ ProfileInit
  /\ IF part = "jst" THEN JstInit
     ELSE text = Time(0, 0) /\ clock = 0 /\ fireAt = Unread

SyncPart(step) ==
  part = "sync" /\ step
    /\ UNCHANGED <<part, sessionVars, pageVars, profileVars, jstVars>>

MCNext ==
  \/ SyncPart(Next)
  \/ part = "login" /\ SessionsStep
       /\ UNCHANGED <<part, vars, pageVars, profileVars, jstVars>>
  \/ part = "page" /\ PageStep
       /\ UNCHANGED <<part, vars, sessionVars, profileVars, jstVars>>
  \/ part = "profile" /\ ProfileStep
       /\ UNCHANGED <<part, vars, sessionVars, pageVars, jstVars>>
  \/ part = "jst" /\ Parse
       /\ UNCHANGED <<part, vars, sessionVars, pageVars, profileVars>>

MCSpec ==
  MCInit /\ [][MCNext]_allVars /\ WF_allVars(SyncPart(ScanStep /\ Observe))

\* GrantsVouched, README: the bot gives nothing that the author of a rule could
\* not have given; and every part has states of the right type.
AdminSafe ==
  /\ TypeOK /\ SyncTypeOK /\ SessionsTypeOK /\ PageTypeOK /\ ProfileTypeOK
  /\ GrantsVouched
=============================================================================
