----------------------------- MODULE Consensus -----------------------------
(* The consensus on one topic (knowledge/services/consensus.py): what an owner's
   decisions across meetings amount to, the timeline of its positions, and the
   entry of the topic in the registry of conflicts.

   A computation gathers the decisions, asks the language model about them, and
   stores the answer; it is a request of its own transaction, and two of them, or
   one and a user who settles the conflict, may overlap. *)
EXTENDS Integers, Sequences, FiniteSets

CONSTANTS
  MeetingOfDecision,  \* [decision -> meeting]; the decisions name the topic
  Confidences,        \* what the model can be confident about, 0..100
  Computing,          \* requests that can be in ConsensusService.compute
  MaxComputations     \* bound on the computations

ASSUME ConsensusAssumption == Confidences \subseteq 0..100 /\ MaxComputations \in Nat

Decisions == DOMAIN MeetingOfDecision
Positions == Decisions                \* a position is what one of them says
\* "resolved" is resolved or dismissed: no code tells them apart.
ConflictStatus == {"open", "acknowledged", "resolved"}
ConsensusTrend == {"new", "stable", "strengthening", "weakening", "shifting"}
NoConsensus == [trend |-> "none"]
NoConflict == [status |-> "none"]

VARIABLES
  reversed,     \* decisions whose status is "reversed"
  consensus,    \* the KnowledgeConsensus row
  revisions,    \* Seq of positions: KnowledgeConsensusRevision
  conflict,     \* the KnowledgeConflict row
  computing,    \* [Computing -> where the request is, and its local variables]
  computations,
  interleaved   \* history: two computations have overlapped

consensusVars == <<reversed, consensus, revisions, conflict, computing, computations, interleaved>>

NotComputing == [pc |-> "idle"]

ConsensusInit ==
  /\ reversed = {}
  /\ consensus = NoConsensus
  /\ revisions = <<>>
  /\ conflict = NoConflict
  /\ computing = [c \in Computing |-> NotComputing]
  /\ computations = 0
  /\ interleaved = FALSE

Reverse(d) ==
  /\ d \notin reversed
  /\ reversed' = reversed \cup {d}
  /\ UNCHANGED <<consensus, revisions, conflict, computing, computations, interleaved>>

Standing == Decisions \ reversed

\* _topic_groups: a topic has at least two decisions, of at least two meetings.
IsTopic(ds) == Cardinality(ds) >= 2 /\ Cardinality({MeetingOfDecision[d] : d \in ds}) >= 2

\* A topic that is none any more is skipped: its rows stay as they are.
Gather(c) ==
  /\ computing[c].pc = "idle"
  /\ computations < MaxComputations
  /\ IsTopic(Standing)
  /\ computations' = computations + 1
  /\ computing' = [computing EXCEPT ![c] = [pc |-> "gathered", decisions |-> Standing]]
  /\ interleaved' = (interleaved \/ \E b \in Computing : computing[b].pc # "idle")
  /\ UNCHANGED <<reversed, consensus, revisions, conflict>>

\* _resolve: what the model says, or the fallback when it fails: the last decision
\* is the position and nothing is a conflict.
Answers(ds) == [position : ds, confidence : Confidences, opposed : BOOLEAN]

Resolve(c) ==
  /\ computing[c].pc = "gathered"
  /\ \E a \in Answers(computing[c].decisions) :
       computing' = [computing EXCEPT ![c] = [pc |-> "resolved", answer |-> a]]
  /\ UNCHANGED <<reversed, consensus, revisions, conflict, computations, interleaved>>

\* _persist: the row as it is before anything is locked.
LookUp(c) ==
  /\ computing[c].pc = "resolved"
  /\ computing' = [computing EXCEPT ![c] =
        [pc |-> "found", answer |-> @.answer, existing |-> consensus]]
  /\ UNCHANGED <<reversed, consensus, revisions, conflict, computations, interleaved>>

\* Mutant: the confidence is compared before the position.
TrendByConfidence(existing, a) ==
  IF existing.trend = "none" THEN "new"
  ELSE IF a.confidence > existing.confidence + 2 THEN "strengthening"
  ELSE IF a.confidence < existing.confidence - 2 THEN "weakening"
  ELSE IF existing.position # a.position THEN "shifting"
  ELSE "stable"

Trend(existing, a) ==
  IF existing.trend = "none" THEN "new"
  ELSE IF existing.position # a.position THEN "shifting"
  ELSE IF a.confidence > existing.confidence + 2 THEN "strengthening"
  ELSE IF a.confidence < existing.confidence - 2 THEN "weakening"
  ELSE "stable"

\* update_or_create holds the row until the request ends; _sync_conflict then
\* looks at the conflict, which it does not hold.
Lock(c) ==
  /\ computing[c].pc = "found"
  /\ \A b \in Computing : computing[b].pc # "locked"
  /\ computing' = [computing EXCEPT ![c] =
        [pc |-> "locked", answer |-> @.answer, existing |-> @.existing, conflict |-> conflict.status]]
  /\ UNCHANGED <<reversed, consensus, revisions, conflict, computations, interleaved>>

Stability(revs) == IF 100 - 18 * (Len(revs) - 1) > 0 THEN 100 - 18 * (Len(revs) - 1) ELSE 0

\* An opposed position is an open conflict, unless the conflict was found
\* resolved; one that is no longer opposed resolves the open conflict.
Synced(seen, opposed) ==
  IF opposed THEN [conflict EXCEPT !.status = IF seen = "resolved" THEN seen ELSE "open"]
  ELSE IF conflict.status = "open" THEN [conflict EXCEPT !.status = "resolved"]
  ELSE conflict

Store(c) ==
  /\ computing[c].pc = "locked"
  /\ LET a == computing[c].answer
         trend == Trend(computing[c].existing, a)
         revs == IF trend \in {"new", "shifting"} THEN Append(revisions, a.position) ELSE revisions
     IN /\ consensus' = [trend |-> trend, position |-> a.position, confidence |-> a.confidence,
                         stability |-> Stability(revs)]
        /\ revisions' = revs
        /\ conflict' = Synced(computing[c].conflict, a.opposed)
  /\ computing' = [computing EXCEPT ![c] = NotComputing]
  /\ UNCHANGED <<reversed, computations, interleaved>>

\* The language model, or what follows it, raises: the request is rolled back.
Abandon(c) ==
  /\ computing[c].pc # "idle"
  /\ computing' = [computing EXCEPT ![c] = NotComputing]
  /\ UNCHANGED <<reversed, consensus, revisions, conflict, computations, interleaved>>

\* resolve_conflict: any status, over whatever is there.
Settle(status) ==
  /\ conflict.status \notin {"none", status}
  /\ conflict' = [status |-> status]
  /\ UNCHANGED <<reversed, consensus, revisions, computing, computations, interleaved>>

ComputeStep == \E c \in Computing :
  Gather(c) \/ Resolve(c) \/ LookUp(c) \/ Lock(c) \/ Store(c) \/ Abandon(c)

ConsensusNext ==
  \/ ComputeStep
  \/ \E d \in Decisions : Reverse(d)
  \/ \E s \in ConflictStatus : Settle(s)

ConsensusSpec == ConsensusInit /\ [][ConsensusNext]_consensusVars

-----------------------------------------------------------------------------
\* The timeline tells how the position moved: it ends with the position that
\* holds, a position is followed by another, and the stability counts the moves.
\* The first two need computations that do not overlap.
EvolutionIsTrue ==
  /\ revisions # <<>> <=> consensus.trend # "none"
  /\ consensus.trend # "none" => consensus.stability = Stability(revisions)
  /\ ~interleaved => \A i \in 1..Len(revisions) :
       IF i = Len(revisions) THEN revisions[i] = consensus.position
       ELSE revisions[i] # revisions[i + 1]

=============================================================================
