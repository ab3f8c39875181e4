---------------------------- MODULE ProfileForm ----------------------------
(***************************************************************************)
(* The form for the looks of the bot in one guild (connect:                 *)
(* ProfilePanel.tsx, functions/profile.ts, discord.server.ts), used by      *)
(* several administrators at a time.  "picture" stands for icon and banner, *)
(* which are alike; texts and files are Looks.                              *)
(***************************************************************************)
EXTENDS Naturals

CONSTANTS Admins, Looks,
          MaxEdits  \* bound

ASSUME ProfileAssumption == MaxEdits \in Nat

VARIABLES profile,  \* what Discord has
          entered,  \* entered[a]: the form's fields
          known,    \* known[a]: the nickname that was loaded, and useAsync's flag
          sending,  \* sending[a]: a save's body
          edits,
          meant     \* observer: fields a typed in, and what, when saving

profileVars == <<profile, entered, known, sending, edits, meant>>

Fields == {"nick", "bio", "picture"}
Unset == "unset"      \* undefined
BotDefault == "default"  \* null
Value == Looks \cup {BotDefault}

NotSaving == [stage |-> "idle"]
NothingEntered == [f \in Fields |-> Unset]

ProfileInit ==
  /\ profile = [f \in Fields |-> BotDefault]
  /\ entered = [a \in Admins |-> NothingEntered]
  /\ known = [a \in Admins |-> [nick |-> Unset, loading |-> TRUE]]
  /\ sending = [a \in Admins |-> NotSaving]
  /\ edits = 0
  /\ meant = [a \in Admins |-> NothingEntered]

ProfileTypeOK ==
  /\ profile \in [Fields -> Value]
  /\ entered \in [Admins -> [Fields -> Value \cup {Unset}]]
  /\ known \in [Admins -> [nick : Value \cup {Unset}, loading : BOOLEAN]]
  /\ \A a \in Admins : sending[a].stage \in {"idle", "reading", "sent", "done"}
  /\ edits \in 0 .. MaxEdits

\* useAsync: the profile is loaded, at the start and after a save.
Load(a) ==
  /\ known[a].loading
  /\ known' = [known EXCEPT ![a] = [nick |-> profile["nick"], loading |-> FALSE]]
  /\ UNCHANGED <<profile, entered, sending, edits, meant>>

\* An emptied nickname asks for the default one, an emptied text for nothing;
\* a picture has a box for its default, and its file can be taken back.
MayEnter(f) == CASE f = "nick" -> Value
                 [] f = "bio" -> Looks \cup {Unset}
                 [] f = "picture" -> Value \cup {Unset}

Enter(a, f, v) ==
  /\ edits < MaxEdits
  /\ edits' = edits + 1
  /\ v \in MayEnter(f)
  /\ entered' = [entered EXCEPT ![a][f] = v]
  /\ UNCHANGED <<profile, known, sending, meant>>

\* Faulty: the nickname on screen is sent.
BodyOnScreen(a) ==
  [entered[a] EXCEPT !["nick"] = IF @ = Unset THEN known[a].nick
                               ELSE @]

\* The closure of save() holds the fields of the last rendering.
SavedFields(a) == entered[a]

ClickSave(a) ==
  /\ sending[a] = NotSaving
  /\ sending' = [sending EXCEPT ![a] = [stage |-> "reading", body |-> SavedFields(a)]]
  /\ meant' = [meant EXCEPT ![a] = entered[a]]
  /\ UNCHANGED <<profile, entered, known, edits>>

\* The files are read; the request goes out.
FilesRead(a) ==
  /\ sending[a].stage = "reading"
  /\ sending' = [sending EXCEPT ![a].stage = "sent"]
  /\ UNCHANGED <<profile, entered, known, edits, meant>>

\* updateProfile: Discord leaves alone what is not in the body.
Update(a) ==
  /\ sending[a].stage = "sent"
  /\ profile' = [f \in Fields |-> IF sending[a].body[f] = Unset THEN profile[f]
                                  ELSE sending[a].body[f]]
  /\ sending' = [sending EXCEPT ![a].stage = "done"]
  /\ UNCHANGED <<entered, known, edits, meant>>

\* All fields are cleared, with what was entered since the click.
Saved(a) ==
  /\ sending[a].stage = "done"
  /\ sending' = [sending EXCEPT ![a] = NotSaving]
  /\ entered' = [entered EXCEPT ![a] = NothingEntered]
  /\ known' = [known EXCEPT ![a].loading = TRUE]
  /\ UNCHANGED <<profile, edits, meant>>

\* A file, the request, Discord or the answer failed: the fields stay.
SaveFails(a) ==
  /\ sending[a] # NotSaving
  /\ sending' = [sending EXCEPT ![a] = NotSaving]
  /\ UNCHANGED <<profile, entered, known, edits, meant>>

ProfileStep ==
  \E a \in Admins :
    \/ Load(a) \/ ClickSave(a) \/ FilesRead(a) \/ Update(a) \/ Saved(a)
    \/ SaveFails(a)
    \/ \E f \in Fields, v \in Value \cup {Unset} : Enter(a, f, v)

ProfileSpec == ProfileInit /\ [][ProfileStep]_profileVars

\* The page, "only the items you entered are updated": a field changes to what
\* an administrator entered in it before saving, so nobody takes back what
\* another one has changed after the page was loaded.
OnlyWhatWasEntered ==
  [][\A f \in Fields : profile'[f] # profile[f] =>
       \E a \in Admins : sending[a].stage = "sent" /\ sending'[a] # sending[a]
                         /\ meant[a][f] = profile'[f]]_profileVars
=============================================================================
