------------------------------ MODULE MCArona ------------------------------
(***************************************************************************)
(* The Go services on small instances: the Misskey watcher, the mentions    *)
(* from mixi2, and the nightly synchronisation of check-ins.  They share no *)
(* state, so a behaviour is one of one part, chosen at its start.           *)
(***************************************************************************)
EXTENDS Watcher, MentionLink, SwarmSync

VARIABLE part

allVars == <<part, vars, mentionVars, swarmVars>>

MCInit ==
  /\ part \in {"watcher", "mention", "swarm"}
  /\ Init
  /\ MentionInit /\ (part # "mention" => ~ dry)
  /\ SwarmInit

WatcherPart(action) ==
  part = "watcher" /\ action /\ UNCHANGED <<part, mentionVars, swarmVars>>
MentionPart(action) ==
  part = "mention" /\ action /\ UNCHANGED <<part, vars, swarmVars>>

MCNext ==
  \/ WatcherPart(Next)
  \/ MentionPart(MentionStep)
  \/ part = "swarm" /\ SwarmStep /\ UNCHANGED <<part, vars, mentionVars>>

\* The fairness of Spec and of MentionSpec.
MCSpec ==
  /\ MCInit /\ [][MCNext]_allVars
  /\ WF_allVars(WatcherPart(ReaderStep)) /\ WF_allVars(WatcherPart(WorkerStep))
  /\ WF_allVars(MentionPart(WatchStep)) /\ WF_allVars(MentionPart(HandlerStep))
  /\ WF_allVars(MentionPart(ProcessStep))

\* DeliveredInOrder, the watcher's "one at a time and in delivery order"; and
\* every part has states of the right type.
AronaSafe == TypeOK /\ MentionTypeOK /\ SwarmTypeOK /\ DeliveredInOrder

\* ReaderGoesOn, of the behaviours of the watcher.
WatcherGoesOn == part = "watcher" => ReaderGoesOn

\* ReadIsForwarded, of the behaviours of the mentions.
MentionGoesOn == part = "mention" => ReadIsForwarded
=============================================================================
