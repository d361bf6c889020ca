---------------------------- MODULE MCKnowledge ----------------------------
(* How meetings become rows, and what is kept of them, on small instances: the
   stages of the pipeline, the versioned rows they write, the knowledge index, the
   consensus, the executive view, the voice identities, the scores of a diarization,
   and the schema all of it is stored in.

   Where one of them reads back what another writes, it has that write as an action
   of its own (Edit, Reverse, DeleteSpeakers, WorkspaceChanges), at any time; so a
   behaviour of the whole is an interleaving of theirs, and every property is of one
   of them.  A behaviour here moves the component in focus, the others stay in their
   initial state, and TLC checks each with one set of bounds. *)
EXTENDS KnowledgeIndex, Consensus, VoiceIdentity, SpeakerScoring, Migrations,
        MeetingPipeline, VersionedRows, Executive, TLC

CONSTANTS d1, d2, mm1, mm2

\* Two decisions of one topic, from two meetings.
TwoMeetings == (d1 :> mm1) @@ (d2 :> mm2)

\* Segments of two, one and three slots, and a slot without speech.
SmallTimeline == <<1, 1, 2, 3, 3, 3, 0>>

\* Threads and requests are interchangeable.
Alike == Permutations(Indexings)

\* What raises the alert also calls for the recommendation.
OneCause == (workspace.holding = {}) = (workspace.advised = {})

VARIABLE focus

Init ==
  /\ focus \in {"index", "consensus", "voices", "scoring", "schema", "pipeline",
               "rows", "executive"}
  /\ IndexInit /\ ConsensusInit /\ VoiceInit /\ ScoringInit /\ MigrationsInit
  /\ PipelineInit /\ RowsInit /\ ExecutiveInit
  /\ focus # "pipeline" => ~config.audio /\ ~config.override

Next ==
  /\ UNCHANGED focus
  /\ \/ /\ focus = "index" /\ IndexNext
        /\ UNCHANGED <<consensusVars, voiceVars, scoringVars, migrationVars, pipelineVars,
                       rowVars, executiveVars>>
     \/ /\ focus = "consensus" /\ ConsensusNext
        /\ UNCHANGED <<indexVars, voiceVars, scoringVars, migrationVars, pipelineVars,
                       rowVars, executiveVars>>
     \/ /\ focus = "voices" /\ VoiceNext
        /\ UNCHANGED <<indexVars, consensusVars, scoringVars, migrationVars, pipelineVars,
                       rowVars, executiveVars>>
     \/ /\ focus = "scoring" /\ ScoringNext
        /\ UNCHANGED <<indexVars, consensusVars, voiceVars, migrationVars, pipelineVars,
                       rowVars, executiveVars>>
     \/ /\ focus = "schema" /\ MigrationsNext
        /\ UNCHANGED <<indexVars, consensusVars, voiceVars, scoringVars, pipelineVars,
                       rowVars, executiveVars>>
     \/ /\ focus = "pipeline" /\ PipelineNext
        /\ UNCHANGED <<indexVars, consensusVars, voiceVars, scoringVars, migrationVars,
                       rowVars, executiveVars>>
     \/ /\ focus = "rows" /\ RowsNext
        /\ UNCHANGED <<indexVars, consensusVars, voiceVars, scoringVars, migrationVars,
                       pipelineVars, executiveVars>>
     \/ /\ focus = "executive" /\ ExecutiveNext /\ OneCause'
        /\ UNCHANGED <<indexVars, consensusVars, voiceVars, scoringVars, migrationVars,
                       pipelineVars, rowVars>>

Spec == Init /\ [][Next]_<<focus, indexVars, consensusVars, voiceVars,
                           scoringVars, migrationVars, pipelineVars, rowVars, executiveVars>>
=============================================================================
