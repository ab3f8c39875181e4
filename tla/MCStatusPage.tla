---------------------------- MODULE MCStatusPage ----------------------------
(***************************************************************************)
(* The status page on a small instance: one pass of checks, what is drawn   *)
(* of the checks taken so far, and the page in a browser.  The three share  *)
(* no state, so a behaviour is one of one part, chosen at its start.        *)
(***************************************************************************)
EXTENDS Checks, Uptime, StatusView

VARIABLE part

allVars == <<part, checkVars, uptimeVars, viewVars>>

\* Every kind of check, one of http that takes some statuses alone.
MCType == ("web" :> "http") @@ ("api" :> "http") @@ ("db" :> "tcp")
            @@ ("host" :> "ping") @@ ("bot" :> "docker")
MCOkStatuses == [s \in DOMAIN MCType |-> IF s = "api" THEN {200, 401} ELSE {}]

\* Bars of one rollup bucket, as of 24 hours, and of several.
MCRanges == {[count |-> 2, per |-> 1], [count |-> 2, per |-> 2]}

MCInit ==
  /\ part \in {"checks", "uptime", "view"}
  /\ ChecksInit /\ UptimeInit /\ ViewInit

ChecksPart(step) ==
  part = "checks" /\ step /\ UNCHANGED <<part, uptimeVars, viewVars>>
ViewPart(step) ==
  part = "view" /\ step /\ UNCHANGED <<part, checkVars, uptimeVars>>

MCNext ==
  \/ ChecksPart(ChecksStep)
  \/ part = "uptime" /\ UptimeStep /\ UNCHANGED <<part, checkVars, viewVars>>
  \/ ViewPart(ViewStep)

\* The fairness of ChecksSpec and of ViewSpec.
MCSpec ==
  /\ MCInit /\ [][MCNext]_allVars
  /\ WF_allVars(ChecksPart(Timeouts))
  /\ WF_allVars(ChecksPart(Connections))
  /\ WF_allVars(ChecksPart(WriteSnapshot))
  /\ WF_allVars(ViewPart(MinutePasses))
  /\ WF_allVars(ViewPart(Refresh))
  /\ WF_allVars(ViewPart(Render))

\* SnapshotIsTrue, README: a snapshot says "up" of the services that answered as
\* their kind demands; and every part has states of the right type.
StatusSafe == ChecksTypeOK /\ UptimeTypeOK /\ ViewTypeOK /\ SnapshotIsTrue

\* PassEnds, of the behaviours that are a pass: it comes to its snapshot without
\* an answer of any service, and leaves no connection open.
CheckPassEnds == part = "checks" => PassEnds

\* PageCatchesUp, of the behaviours that are a page: it comes to warn of a silent
\* checker and to list the services of the last configuration.
ViewCatchesUp == part = "view" => PageCatchesUp
=============================================================================
