----------------------------- MODULE GuildPage -----------------------------
(***************************************************************************)
(* The page of a guild in the web admin of connect, in one browser: a card  *)
(* of settings (SettingsCard.tsx and its panels) and the reminders it lists *)
(* (ReminderPanel.tsx, useAsync of hooks.ts), before the server functions.  *)
(*                                                                         *)
(* Requests are served and answered in any order.  The page is left for the *)
(* list of guilds, which unmounts it; the browser's history can also go     *)
(* from one guild's page to another's, where React keeps its state.         *)
(***************************************************************************)
EXTENDS Naturals

CONSTANTS Guilds,
          Ids, GuildOf,  \* reminders, GuildOf[i]: the guild of one
          MaxRequests    \* bound

GuildList == "list"
NoChannel == "none"

ASSUME PageOfGuildAssumption ==
  /\ GuildList \notin Guilds /\ NoChannel \notin Guilds
  /\ GuildOf \in [Ids -> Guilds] /\ MaxRequests \in Nat

VARIABLES page,      \* the guild on screen or GuildList
          mount,     \* how often the page was mounted
          effect,    \* how often useAsync ran its effect
          form,      \* state `settings` of the card
          isSaving,  \* its state `saving`
          shown,     \* useAsync: the reminders on screen
          loading,   \* useAsync: an effect waits for its answer
          requests, sent,
          stored,    \* stored[g]: the settings the server has
          booked     \* the reminders it has

\* What an observer remembers.
VARIABLES jumpedTo,   \* guilds to whose page the history went from another guild's
          cancelled   \* reminders whose cancellation was confirmed to the page

pageVars == <<page, mount, effect, form, isSaving, shown, loading, requests,
              sent, stored, booked, jumpedTo, cancelled>>

NoForm == [from |-> "none"]

\* Settings, by the guild their texts were loaded for and the guild whose
\* channel they name.
Settings == [from : Guilds, channel : Guilds \cup {NoChannel}]

\* A request and, once it is served, its answer: settings and ids are what is
\* asked for or answered.
Requests ==
  [kind : {"get", "put", "list", "cancel"}, guild : Guilds, mount : Nat,
   effect : Nat, served : BOOLEAN, settings : Settings \cup {NoForm},
   ids : SUBSET Ids]

PageTypeOK ==
  /\ page \in Guilds \cup {GuildList}
  /\ mount \in Nat /\ effect \in Nat /\ sent \in 0 .. MaxRequests
  /\ form \in Settings \cup {NoForm}
  /\ isSaving \in BOOLEAN /\ loading \in BOOLEAN /\ jumpedTo \subseteq Guilds
  /\ shown \subseteq Ids /\ booked \subseteq Ids /\ cancelled \subseteq Ids
  /\ stored \in [Guilds -> Settings]
  /\ requests \subseteq Requests

PageInit ==
  /\ page = GuildList
  /\ mount = 0 /\ effect = 0 /\ sent = 0
  /\ form = NoForm
  /\ isSaving = FALSE /\ loading = FALSE /\ jumpedTo = {}
  /\ shown = {} /\ requests = {} /\ cancelled = {}
  /\ stored = [g \in Guilds |-> [from |-> g, channel |-> NoChannel]]
  /\ booked = Ids

-----------------------------------------------------------------------------
(* In the browser.                                                          *)

Request(kind, g) == [kind |-> kind, guild |-> g, mount |-> mount',
                     effect |-> effect', served |-> FALSE,
                     settings |-> NoForm, ids |-> {}]

\* The effects of the card and of useAsync run for a guild.
LoadPage(g) ==
  /\ sent + 2 <= MaxRequests
  /\ sent' = sent + 2
  /\ page' = g
  /\ effect' = effect + 1
  /\ loading' = TRUE
  /\ requests' = requests \cup {Request("get", g), Request("list", g)}

Open(g) ==
  /\ page = GuildList
  /\ mount' = mount + 1
  /\ LoadPage(g)
  /\ form' = NoForm /\ isSaving' = FALSE /\ shown' = {}
  /\ UNCHANGED <<stored, booked, jumpedTo, cancelled>>

JumpTo(g) ==
  /\ page \in Guilds \ {g}
  /\ jumpedTo' = jumpedTo \cup {g}
  /\ UNCHANGED mount
  /\ LoadPage(g)
  /\ UNCHANGED <<form, isSaving, shown, stored, booked, cancelled>>

Close ==
  /\ page \in Guilds
  /\ page' = GuildList
  /\ UNCHANGED <<mount, effect, form, isSaving, shown, loading, requests, sent,
                 stored, booked, jumpedTo, cancelled>>

\* ChannelSelect: the channels of the guild on screen, whosever the form.
Offered == {NoChannel, page}

Edit ==
  /\ page \in Guilds /\ form # NoForm
  /\ \E channel \in Offered :
       form' = [form EXCEPT !.channel = channel]
  /\ UNCHANGED <<page, mount, effect, isSaving, shown, loading, requests, sent,
                 stored, booked, jumpedTo, cancelled>>

Send(request) ==
  /\ sent < MaxRequests
  /\ sent' = sent + 1
  /\ requests' = requests \cup {request}

Save ==
  /\ page \in Guilds /\ form # NoForm /\ ~ isSaving
  /\ isSaving' = TRUE
  /\ UNCHANGED <<mount, effect>>
  /\ Send([Request("put", page) EXCEPT !.settings = form])
  /\ UNCHANGED <<page, form, shown, loading, stored, booked, jumpedTo,
                 cancelled>>

\* The button of a row; the rows are children of the card.
Cancel(i) ==
  /\ page \in Guilds /\ form # NoForm /\ i \in shown
  /\ UNCHANGED <<mount, effect>>
  /\ Send([Request("cancel", page) EXCEPT !.ids = {i}])
  /\ UNCHANGED <<page, form, isSaving, shown, loading, stored, booked, jumpedTo,
                 cancelled>>

-----------------------------------------------------------------------------
(* At the server.                                                           *)

Serve(r, settings, ids) ==
  requests' = (requests \ {r}) \cup
    {[r EXCEPT !.served = TRUE, !.settings = settings, !.ids = ids]}

ServeRead(r) ==
  /\ \/ r.kind = "get" /\ Serve(r, stored[r.guild], {})
     \/ r.kind = "list" /\ Serve(r, NoForm, {i \in booked : GuildOf[i] = r.guild})
  /\ UNCHANGED <<stored, booked>>

\* Faulty: channels are not looked up.
AnyReference(g, body) == TRUE

\* invalidReference: a channel is the guild's own, whosever the texts.
ValidReference(g, body) == body.channel \in {NoChannel, g}

ServePut(r) ==
  /\ r.kind = "put"
  /\ ValidReference(r.guild, r.settings)
  /\ stored' = [stored EXCEPT ![r.guild] = r.settings]
  /\ Serve(r, r.settings, {})
  /\ UNCHANGED booked

\* DELETE ... WHERE id = ? AND guild_id = ?
Matching(r) == {i \in r.ids : GuildOf[i] = r.guild}

ServeCancel(r) ==
  /\ r.kind = "cancel"
  /\ booked' = booked \ Matching(r)
  /\ Serve(r, NoForm, Matching(r))
  /\ UNCHANGED stored

Served(r) ==
  /\ ~ r.served
  /\ ServeRead(r) \/ ServePut(r) \/ ServeCancel(r)
  /\ UNCHANGED <<page, mount, effect, form, isSaving, shown, loading, sent,
                 jumpedTo, cancelled>>

-----------------------------------------------------------------------------
(* Answers, or errors, reach the browser: what was served may be lost.      *)

\* A component that is no more takes no answer.
IsMounted(r) == page \in Guilds /\ r.mount = mount

\* Faulty: an effect that was cleaned up sets the state all the same.
AnyEffect(r) == IsMounted(r)

\* `cancelled` of useAsync
IsLatest(r) == IsMounted(r) /\ r.effect = effect

AnswerSettings(r, ok) ==
  /\ r.kind \in {"get", "put"}
  /\ requests' = requests \ {r}
  /\ form' = IF IsMounted(r) /\ ok THEN r.settings ELSE form
  /\ isSaving' = (isSaving /\ ~ (IsMounted(r) /\ r.kind = "put"))
  /\ UNCHANGED <<effect, shown, loading, sent, cancelled>>

AnswerList(r, ok) ==
  /\ r.kind = "list"
  /\ requests' = requests \ {r}
  /\ IF IsLatest(r)
     THEN /\ shown' = IF ok THEN r.ids ELSE {}
          /\ loading' = FALSE
     ELSE UNCHANGED <<shown, loading>>
  /\ UNCHANGED <<effect, form, isSaving, sent, cancelled>>

\* await deleteReminder; reload()
AnswerCancel(r, ok) ==
  /\ r.kind = "cancel"
  /\ IF ok /\ IsMounted(r)
     THEN /\ effect' = effect + 1
          /\ loading' = TRUE
          /\ sent < MaxRequests
          /\ sent' = sent + 1
          /\ requests' = (requests \ {r}) \cup {Request("list", page)}
          /\ cancelled' = cancelled \cup r.ids
     ELSE /\ requests' = requests \ {r}
          /\ UNCHANGED <<effect, loading, sent, cancelled>>
  /\ UNCHANGED <<form, isSaving, shown>>

Answered(r) ==
  /\ UNCHANGED mount
  /\ \E ok \in {FALSE, r.served} :
       AnswerSettings(r, ok) \/ AnswerList(r, ok) \/ AnswerCancel(r, ok)
  /\ UNCHANGED <<page, stored, booked, jumpedTo>>

PageStep ==
  \/ \E g \in Guilds : Open(g) \/ JumpTo(g)
  \/ Close \/ Edit \/ Save
  \/ \E i \in Ids : Cancel(i)
  \/ \E r \in requests : Served(r) \/ Answered(r)

PageSpec == PageInit /\ [][PageStep]_pageVars

-----------------------------------------------------------------------------
(* Correctness.                                                             *)

\* README, settings are kept per server.  A guild never has a channel of another
\* one, although the card may hold that channel when it is saved; and it has the
\* texts of another one only if the history went to its page from another
\* guild's, whatever answers were late and whatever pages were closed before.
SettingsStayHome ==
  \A g \in Guilds : /\ stored[g].channel \in {NoChannel, g}
                    /\ stored[g].from = g \/ g \in jumpedTo

\* Once the list has loaded it is the guild's own, without the reminders whose
\* cancellation was confirmed, whichever of several answers came last; and a
\* reminder that is listed on another guild's page survives its button.
ListIsCurrent ==
  /\ page \in Guilds /\ ~ loading =>
       shown \cap cancelled = {} /\ \A i \in shown : GuildOf[i] = page
  /\ \A i \in Ids \ booked : \A r \in requests :
       r.kind = "cancel" /\ r.served /\ i \in r.ids => GuildOf[i] = r.guild
=============================================================================
