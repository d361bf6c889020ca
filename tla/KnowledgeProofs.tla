-------------------------- MODULE KnowledgeProofs --------------------------
(* Proofs about the components around the knowledge index, for any decisions,
   meetings, requests and bounds: the stages of the pipeline, the consensus, the
   executive view, the voice identities, the scores of the benchmarks, and the schema
   that all of it is stored in.

   Each has an inductive invariant of its own.  The pipeline's says what a running
   processing keeps in its local variables and what its completed stages have left
   in the meeting.  The consensus's says what a computation that overlaps no other
   knows: the row it found is the row it will replace.  A voice request that overlaps
   no other works on the rows that are there.  The dashboard needs only that rows
   have their columns.  The scores are compared as numbers of slots: what is counted
   as correct is a part of what is heard, and the same number means all of it.  The
   schema is always that of the migrations that have run; what is proved of the 31
   files one by one is who creates what, and that each is built on the files that
   create what its keys refer to. *)
EXTENDS MeetingPipeline, Consensus, Executive, VoiceIdentity, SpeakerScoring,
        Migrations, SequenceTheorems, FiniteSetTheorems, TLAPS


-----------------------------------------------------------------------------
\* The pipeline.
\* The order of the stages, as far as the proofs need it.
LEMMA TheOrder ==
    /\ Len(Order) = 15
    /\ Order[5] = "language_detection" /\ Order[6] = "speech_to_text"
    /\ Order[7] = "transcript_cleanup" /\ Order[8] = "transcript_segmentation"
    /\ Order[10] = "store_transcript" /\ Order[13] = "ai_analysis"
    /\ Order[14] = "store_ai_results"
    /\ \A i \in 1..15 :
        /\ Order[i] = "language_detection" => i = 5
        /\ Order[i] = "speech_to_text" => i = 6
        /\ Order[i] = "transcript_cleanup" => i = 7
        /\ Order[i] = "transcript_segmentation" => i = 8
        /\ Order[i] = "store_transcript" => i = 10
        /\ Order[i] = "ai_analysis" => i = 13
        /\ Order[i] = "store_ai_results" => i = 14
BY DEF Order

\* What the run in progress has in ctx.shared: what its own stages provided, and
\* nothing of those it skipped or has not come to.
OwnWork ==
    /\ runs > 0 /\ from <= done
    /\ \A i \in 1..15 : from < i /\ i <= done => Provides(Order[i]) \subseteq ctx
    /\ "stt_result" \in ctx => from < 6 /\ 6 <= done + 1
    /\ "ai_result" \in ctx => from < 13 /\ 13 <= done + 1

\* What the run made of it.
OwnResults ==
    /\ config.override /\ from < 5 /\ 6 <= done => hinted
    /\ "ai_result" \in ctx => analysed = transcript.run /\ transcript.run > 0

\* What a running processing has done and holds.
RunInv == status = "running" => OwnWork /\ OwnResults

\* The stages completed in the row, and what they left in the database.
RowInv ==
    /\ transcript.text => transcript.run > 0
    /\ 14 <= done => analysis = transcript.run /\ analysis > 0
    /\ status = "succeeded" => done = 15

\* The inductive invariant of the pipeline.
PipelineInv ==
    /\ done \in 0..15 /\ from \in 0..15 /\ runs \in Nat /\ config \in Config
    /\ RunInv
    /\ RowInv
    /\ TranscriptIsWhole

\* A meeting that was never processed.
LEMMA PipelineInvInit == PipelineInit => PipelineInv
BY DEF PipelineInit, PipelineInv, RunInv, RowInv, TranscriptIsWhole, NoTranscript

\* A stage adds what it provides, and the engine may or may not commit it.
LEMMA WorksKeepsOwnWork ==
    ASSUME PipelineInv, NEW s \in Stages, Works(s)
    PROVE  /\ status = "running" /\ done < 15 /\ s = Order[done + 1]
           /\ UNCHANGED <<config, from, runs>>
           /\ done' \in {done, done + 1} /\ done' \in 0..15
           /\ status' # "succeeded"
           /\ ctx' = ctx \cup Provides(s)
           /\ OwnWork /\ OwnResults
           /\ OwnWork'
<1>1. /\ status = "running" /\ done < 15 /\ s = Order[done + 1]
      /\ UNCHANGED <<config, from, runs>>
      /\ done' \in {done, done + 1}
      /\ status' # "succeeded"
      /\ ctx' = ctx \cup Provides(s)
    BY TheOrder DEF Works, AtStage
<1>2. done' \in 0..15 /\ OwnWork /\ OwnResults
    BY <1>1 DEF PipelineInv, RunInv
<1>3. \A i \in 1..15 : from < i /\ i <= done' => Provides(Order[i])' \subseteq ctx'
    <2> SUFFICES ASSUME NEW i \in 1..15, from < i, i <= done'
                 PROVE  Provides(Order[i]) \subseteq ctx'
        BY <1>1 DEF Provides
    <2>1. CASE i <= done
        BY <1>1, <1>2, <2>1 DEF OwnWork
    <2>2. CASE i = done + 1
        BY <1>1, <2>2
    <2> QED
        BY <1>1, <2>1, <2>2 DEF PipelineInv
<1>4. "stt_result" \in Provides(s) => s = "speech_to_text"
    BY DEF Provides
<1>5. "ai_result" \in Provides(s) => s = "ai_analysis"
    BY DEF Provides
<1>6. done + 1 \in 1..15
    BY <1>1 DEF PipelineInv
<1>7. "stt_result" \in ctx' => from < 6 /\ 6 <= done' + 1
    <2>1. /\ done \in 0..15 /\ from \in 0..15 /\ from <= done
          /\ done' = done \/ done' = done + 1
        BY <1>1, <1>2 DEF OwnWork, PipelineInv
    <2>2. CASE "stt_result" \in ctx
        <3>1. from < 6 /\ 6 <= done + 1
            BY <1>2, <2>2 DEF OwnWork
        <3> QED
            BY <2>1, <3>1
    <2>3. CASE s = "speech_to_text"
        <3>1. done + 1 = 6
            BY <1>1, <1>6, <2>3, TheOrder
        <3> QED
            BY <2>1, <3>1
    <2> QED
        BY <1>1, <1>4, <2>2, <2>3
<1>8. "ai_result" \in ctx' => from < 13 /\ 13 <= done' + 1
    <2>1. /\ done \in 0..15 /\ from \in 0..15 /\ from <= done
          /\ done' = done \/ done' = done + 1
        BY <1>1, <1>2 DEF OwnWork, PipelineInv
    <2>2. CASE "ai_result" \in ctx
        <3>1. from < 13 /\ 13 <= done + 1
            BY <1>2, <2>2 DEF OwnWork
        <3> QED
            BY <2>1, <3>1
    <2>3. CASE s = "ai_analysis"
        <3>1. done + 1 = 13
            BY <1>1, <1>6, <2>3, TheOrder
        <3> QED
            BY <2>1, <3>1
    <2> QED
        BY <1>1, <1>5, <2>2, <2>3
<1>9. runs' > 0 /\ from' <= done'
    BY <1>1, <1>2 DEF OwnWork, PipelineInv
<1> QED
    BY <1>1, <1>2, <1>3, <1>7, <1>8, <1>9 DEF OwnWork

\* The stages that leave the results of the run and the database alone.
LEMMA OtherStageKeeps ==
    ASSUME PipelineInv, NEW s \in Stages \ {"speech_to_text", "ai_analysis", "store_ai_results"},
           Works(s), UNCHANGED <<hinted, analysed, database>>
    PROVE  PipelineInv'
<1>1. /\ status = "running" /\ done < 15 /\ s = Order[done + 1]
      /\ UNCHANGED <<config, from, runs>>
      /\ done' \in {done, done + 1} /\ done' \in 0..15
      /\ status' # "succeeded"
      /\ ctx' = ctx \cup Provides(s)
      /\ OwnWork /\ OwnResults /\ OwnWork'
    BY WorksKeepsOwnWork
<1>2. done + 1 \in 1..15 /\ done \in 0..15
    BY <1>1 DEF PipelineInv
<1>3. "ai_result" \in ctx' => "ai_result" \in ctx
    BY <1>1 DEF Provides
<1>4. done + 1 # 6 /\ done + 1 # 14
    BY <1>1, <1>2, TheOrder
<1>5. OwnResults'
    BY <1>1, <1>2, <1>3, <1>4 DEF OwnResults, database
<1>6. RowInv'
    BY <1>1, <1>2, <1>4 DEF PipelineInv, RowInv, database
<1>7. TranscriptIsWhole'
    BY <1>1 DEF PipelineInv, TranscriptIsWhole, database
<1> QED
    BY <1>1, <1>5, <1>6, <1>7 DEF PipelineInv, RunInv

\* Speech to text rebuilds the text and what is known of its language.
LEMMA SpeechToTextKeeps == PipelineInv /\ SpeechToText => PipelineInv'
<1> SUFFICES ASSUME PipelineInv, SpeechToText PROVE PipelineInv'
    OBVIOUS
<1> DEFINE s == "speech_to_text"
<1>0. s \in Stages /\ Works(s)
    BY TheOrder DEF SpeechToText, Stages
<1>1. /\ status = "running" /\ done < 15 /\ s = Order[done + 1]
      /\ UNCHANGED <<config, from, runs>>
      /\ done' \in {done, done + 1} /\ done' \in 0..15
      /\ status' # "succeeded"
      /\ ctx' = ctx \cup Provides(s)
      /\ OwnWork /\ OwnResults /\ OwnWork'
    BY <1>0, WorksKeepsOwnWork
<1>2. done = 5
    BY <1>1, TheOrder DEF PipelineInv
<1>3. config.override /\ from < 5 => hinted'
    <2>1. Provides(Order[5]) = IF config.override THEN {"language_hint"} ELSE {}
        BY TheOrder DEF Provides
    <2>2. from < 5 => Provides(Order[5]) \subseteq ctx
        BY <1>1, <1>2 DEF OwnWork
    <2> QED
        BY <2>1, <2>2 DEF SpeechToText
<1>4. "ai_result" \notin ctx'
    BY <1>1, <1>2 DEF OwnWork, Provides
<1>5. OwnResults'
    BY <1>1, <1>3, <1>4 DEF OwnResults
<1>6. RowInv' /\ TranscriptIsWhole'
    BY <1>1, <1>2 DEF PipelineInv, RowInv, TranscriptIsWhole, SpeechToText, database
<1> QED
    BY <1>1, <1>5, <1>6 DEF PipelineInv, RunInv

\* What is stored was made by the run itself: without stt_result it would raise.
LEMMA StoreTranscriptKeeps == PipelineInv /\ StoreTranscript => PipelineInv'
<1> SUFFICES ASSUME PipelineInv, StoreTranscript PROVE PipelineInv'
    OBVIOUS
<1> DEFINE s == "store_transcript"
<1>0. s \in Stages /\ Works(s)
    BY TheOrder DEF StoreTranscript, Stages
<1>1. /\ status = "running" /\ done < 15 /\ s = Order[done + 1]
      /\ UNCHANGED <<config, from, runs>>
      /\ done' \in {done, done + 1} /\ done' \in 0..15
      /\ status' # "succeeded"
      /\ ctx' = ctx \cup Provides(s)
      /\ OwnWork /\ OwnResults /\ OwnWork'
    BY <1>0, WorksKeepsOwnWork
<1>2. done = 9
    BY <1>1, TheOrder DEF PipelineInv
<1>3. "stt_result" \in ctx
    BY <1>0 DEF Works, CanRun, Requires, Reads
<1>4. from < 6
    BY <1>3, <1>1 DEF OwnWork
<1>5. "clean_text" \in ctx /\ "segment_rows" \in ctx
    <2>1. Provides(Order[7]) = {"clean_text"} /\ Provides(Order[8]) = {"segment_rows"}
        BY TheOrder DEF Provides
    <2> QED
        BY <1>1, <1>2, <1>4, <2>1 DEF OwnWork, PipelineInv
<1>6. config.override /\ from < 5 => hinted
    BY <1>1, <1>2 DEF OwnResults
<1>7. transcript' = [run |-> runs, from |-> from, text |-> TRUE, rows |-> TRUE, hinted |-> hinted]
    BY <1>5 DEF StoreTranscript
<1>8. "ai_result" \notin ctx'
    BY <1>1, <1>2 DEF OwnWork, Provides
<1>9. OwnResults'
    BY <1>1, <1>2, <1>6, <1>8 DEF OwnResults, StoreTranscript
<1>10. RowInv' /\ TranscriptIsWhole'
    BY <1>1, <1>2, <1>6, <1>7 DEF RowInv, TranscriptIsWhole, OwnWork
<1> QED
    BY <1>1, <1>9, <1>10 DEF PipelineInv, RunInv

\* The analysis is of the text the run holds.
LEMMA AnalyseKeeps == PipelineInv /\ Analyse => PipelineInv'
<1> SUFFICES ASSUME PipelineInv, Analyse PROVE PipelineInv'
    OBVIOUS
<1> DEFINE s == "ai_analysis"
<1>0. s \in Stages /\ Works(s)
    BY TheOrder DEF Analyse, Stages
<1>1. /\ status = "running" /\ done < 15 /\ s = Order[done + 1]
      /\ UNCHANGED <<config, from, runs>>
      /\ done' \in {done, done + 1} /\ done' \in 0..15
      /\ status' # "succeeded"
      /\ ctx' = ctx \cup Provides(s)
      /\ OwnWork /\ OwnResults /\ OwnWork'
    BY <1>0, WorksKeepsOwnWork
<1>2. done = 12
    BY <1>1, TheOrder DEF PipelineInv
<1>3. transcript.run > 0
    BY <1>0 DEF Works, CanRun, PipelineInv, RowInv
<1>4. OwnResults'
    BY <1>1, <1>2, <1>3 DEF OwnResults, Analyse, database
<1>5. RowInv' /\ TranscriptIsWhole'
    BY <1>1, <1>2 DEF PipelineInv, RowInv, TranscriptIsWhole, Analyse, database
<1> QED
    BY <1>1, <1>4, <1>5 DEF PipelineInv, RunInv

\* The analysis that is stored is the run's own, of the transcript that is there.
LEMMA StoreAIResultsKeeps == PipelineInv /\ StoreAIResults => PipelineInv'
<1> SUFFICES ASSUME PipelineInv, StoreAIResults PROVE PipelineInv'
    OBVIOUS
<1> DEFINE s == "store_ai_results"
<1>0. s \in Stages /\ Works(s)
    BY TheOrder DEF StoreAIResults, Stages
<1>1. /\ status = "running" /\ done < 15 /\ s = Order[done + 1]
      /\ UNCHANGED <<config, from, runs>>
      /\ done' \in {done, done + 1} /\ done' \in 0..15
      /\ status' # "succeeded"
      /\ ctx' = ctx \cup Provides(s)
      /\ OwnWork /\ OwnResults /\ OwnWork'
    BY <1>0, WorksKeepsOwnWork
<1>2. "ai_result" \in ctx
    BY <1>0 DEF Works, CanRun, Requires, Reads
<1>3. analysis' = transcript.run /\ transcript.run > 0 /\ UNCHANGED transcript
    BY <1>1, <1>2 DEF OwnResults, StoreAIResults
<1>4. ctx' = ctx
    BY <1>1 DEF Provides
<1>5. done = 13
    BY <1>1, TheOrder DEF PipelineInv
<1>6. OwnResults'
    BY <1>1, <1>3, <1>4, <1>5 DEF OwnResults, StoreAIResults
<1>7. RowInv' /\ TranscriptIsWhole'
    BY <1>1, <1>3 DEF PipelineInv, RowInv, TranscriptIsWhole
<1> QED
    BY <1>1, <1>6, <1>7 DEF PipelineInv, RunInv

\* Every step.
LEMMA PipelineInvNext == PipelineInv /\ [PipelineNext]_pipelineVars => PipelineInv'
<1> SUFFICES ASSUME PipelineInv, [PipelineNext]_pipelineVars PROVE PipelineInv'
    OBVIOUS
<1>1. CASE UNCHANGED pipelineVars
    BY <1>1 DEF pipelineVars, shared, database, PipelineInv, RunInv, OwnWork, OwnResults, RowInv,
                TranscriptIsWhole, Provides
<1>2. CASE BeginRun
    <2>1. /\ status' = "running" /\ runs' = runs + 1 /\ from' = done /\ ctx' = {}
          /\ UNCHANGED <<config, done, transcript, analysis>>
        BY <1>2 DEF BeginRun, database
    <2>2. RunInv'
        BY <2>1 DEF PipelineInv, RunInv, OwnWork, OwnResults
    <2> QED
        BY <2>1, <2>2 DEF PipelineInv, RowInv, TranscriptIsWhole
<1>3. ASSUME NEW s \in Stages \ Special, Works(s), UNCHANGED <<hinted, analysed, database>>
      PROVE  PipelineInv'
    BY <1>3, OtherStageKeeps DEF Special
<1>4. CASE ExtractAudio \/ NormalizeAudio \/ Finalize
    <2>1. /\ "audio_extraction" \in Stages /\ "audio_normalization" \in Stages
          /\ "finalize" \in Stages
        <3>1. /\ Order[3] = "audio_extraction" /\ Order[4] = "audio_normalization"
              /\ Order[15] = "finalize" /\ Len(Order) = 15
            BY DEF Order
        <3> QED
            BY <3>1 DEF Stages
    <2> QED
        BY <1>4, <2>1, OtherStageKeeps DEF ExtractAudio, NormalizeAudio, AudioStage, Finalize
<1>5. CASE StageFails \/ CancelRun \/ LoseWorker
    BY <1>5 DEF StageFails, CancelRun, LoseWorker, Stop, shared, database,
                PipelineInv, RunInv, RowInv, TranscriptIsWhole
<1>6. CASE Succeed
    BY <1>6, TheOrder DEF Succeed, shared, database, PipelineInv, RunInv, RowInv, TranscriptIsWhole
<1>7. CASE Retry \/ Requeue
    BY <1>7 DEF Retry, Requeue, shared, database, PipelineInv, RunInv, RowInv, TranscriptIsWhole
<1> QED
    BY <1>1, <1>2, <1>3, <1>4, <1>5, <1>6, <1>7, SpeechToTextKeeps, StoreTranscriptKeeps,
       AnalyseKeeps, StoreAIResultsKeeps DEF PipelineNext, ComputeStage

\* The invariant holds of every reachable state.
LEMMA PipelineInvAlways == PipelineSpec => []PipelineInv
BY PipelineInvInit, PipelineInvNext, PTL DEF PipelineSpec

\* Whatever runs a job has had, and wherever they ended, a transcript in the
\* database has its text, its segments and the language that was asked for.
THEOREM TranscriptStoredWhole == PipelineSpec => []TranscriptIsWhole
BY PipelineInvAlways, PTL DEF PipelineInv

\* The analysis a completed job leaves was made from the transcript it leaves.
THEOREM AnalysisMatchesTranscript == PipelineSpec => []AnalysisIsOfTranscript
<1>1. PipelineInv => AnalysisIsOfTranscript
    BY DEF PipelineInv, RowInv, AnalysisIsOfTranscript
<1> QED
    BY PipelineInvAlways, <1>1, PTL

\* Where a job of the pipeline may stand.
PipelineStates == {"queued", "running", "lost", "succeeded", "failed", "canceled"}
\* The transcript of the meeting, or none.
StoredTranscripts ==
    [run : 0..MaxRuns, from : 0..15, text : BOOLEAN, rows : BOOLEAN, hinted : BOOLEAN]

\* What the invariant does not say of the types.
StagesTyped ==
    /\ status \in PipelineStates
    /\ runs \in 0..MaxRuns
    /\ ctx \subseteq Keys
    /\ hinted \in BOOLEAN
    /\ analysed \in 0..MaxRuns /\ analysis \in 0..MaxRuns
    /\ temps \subseteq (AudioFiles \X (1..MaxRuns))
    /\ transcript \in StoredTranscripts

\* What a stage leaves alone, and what the engine does about it.
LEMMA WorksTyped ==
    ASSUME PipelineInv, StagesTyped, NEW s \in Stages, Works(s)
    PROVE  /\ status' \in PipelineStates /\ runs' = runs /\ ctx' \subseteq Keys
           /\ runs \in 1..MaxRuns
<1>1. Provides(s) \subseteq Keys
    BY DEF Provides, Keys
<1>2. status' \in PipelineStates /\ runs' = runs /\ ctx' \subseteq Keys
    BY <1>1 DEF Works, StagesTyped, PipelineStates
<1>3. runs \in 0..MaxRuns /\ runs > 0
    BY WorksKeepsOwnWork DEF OwnWork, StagesTyped
<1> QED
    BY <1>2, <1>3

\* Every step keeps the types.
LEMMA StagesTypedNext == PipelineInv /\ StagesTyped /\ [PipelineNext]_pipelineVars => StagesTyped'
<1> SUFFICES ASSUME PipelineInv, StagesTyped, [PipelineNext]_pipelineVars PROVE StagesTyped'
    OBVIOUS
<1>0. /\ "speech_to_text" \in Stages /\ "store_transcript" \in Stages /\ "ai_analysis" \in Stages
      /\ "store_ai_results" \in Stages /\ "audio_extraction" \in Stages
      /\ "audio_normalization" \in Stages /\ "finalize" \in Stages
    <2>1. /\ Order[3] = "audio_extraction" /\ Order[4] = "audio_normalization"
          /\ Order[15] = "finalize" /\ Len(Order) = 15
        BY DEF Order
    <2> QED
        BY <2>1, TheOrder DEF Stages
<1>1. CASE BeginRun
    <2>1. status' \in PipelineStates /\ runs' \in 0..MaxRuns
        <3>1. runs \in 0..MaxRuns /\ runs < MaxRuns /\ runs' = runs + 1 /\ status' = "running"
            BY <1>1 DEF BeginRun, StagesTyped
        <3> QED
            BY <3>1, MaxRunsAssumption DEF PipelineStates
    <2>2. /\ ctx' = {} /\ hinted' = FALSE /\ analysed' = 0 /\ temps' = temps
          /\ transcript' = transcript /\ analysis' = analysis
        BY <1>1 DEF BeginRun, database
    <2>3. hinted' \in BOOLEAN
        BY <1>1, ZenonT(20) DEF BeginRun
    <2>4. analysed' \in 0..MaxRuns
        <3>1. analysed' = 0
            BY <1>1 DEF BeginRun
        <3> QED
            BY <3>1, MaxRunsAssumption
    <2>5. ctx' \subseteq Keys
        BY <2>2
    <2>6. /\ analysis' \in 0..MaxRuns /\ transcript' \in StoredTranscripts
          /\ temps' \subseteq (AudioFiles \X (1..MaxRuns))
        BY <2>2 DEF StagesTyped
    <2> QED
        BY <2>1, <2>3, <2>4, <2>5, <2>6 DEF StagesTyped
<1>2. ASSUME NEW s \in Stages, Works(s), UNCHANGED <<hinted, analysed, database>>,
             temps' \subseteq AudioFiles \X (1..MaxRuns)
      PROVE  StagesTyped'
    BY <1>2, WorksTyped DEF StagesTyped, database
<1>3. CASE ComputeStage
    <2>1. PICK s \in Stages : Works(s)
        BY <1>3 DEF ComputeStage
    <2>2. temps' = temps /\ UNCHANGED <<hinted, analysed, database>>
        BY <1>3 DEF ComputeStage
    <2> QED
        BY <1>2, <2>1, <2>2 DEF StagesTyped
<1>4. ASSUME NEW s \in Stages, NEW f \in AudioFiles, AudioStage(s, f) PROVE StagesTyped'
    <2>1. Works(s) /\ UNCHANGED <<hinted, analysed, database>>
        BY <1>4 DEF AudioStage
    <2>2. <<f, runs>> \in AudioFiles \X (1..MaxRuns)
        BY <2>1, WorksTyped
    <2>3. temps' \subseteq temps \cup {<<f, runs>>}
        BY <1>4 DEF AudioStage
    <2> QED
        BY <1>2, <2>1, <2>2, <2>3 DEF StagesTyped
<1>5. CASE ExtractAudio \/ NormalizeAudio
    <2>1. "extracted" \in AudioFiles /\ "normalized" \in AudioFiles
        BY DEF AudioFiles
    <2> QED
        BY <1>0, <1>4, <1>5, <2>1 DEF ExtractAudio, NormalizeAudio
<1>6. CASE Finalize
    <2>1. Works("finalize") /\ UNCHANGED <<hinted, analysed, database>> /\ temps' \subseteq temps
        BY <1>6 DEF Finalize
    <2> QED
        BY <1>0, <1>2, <2>1 DEF StagesTyped
<1>7. CASE SpeechToText
    <2>1. Works("speech_to_text") /\ UNCHANGED <<analysed, temps, database>>
        BY <1>7 DEF SpeechToText
    <2>2. hinted' \in BOOLEAN
        BY <1>7 DEF SpeechToText
    <2> QED
        BY <1>0, <2>1, <2>2, WorksTyped DEF StagesTyped, database
<1>8. CASE StoreTranscript
    <2>1. Works("store_transcript") /\ UNCHANGED <<hinted, analysed, temps, analysis>>
        BY <1>8 DEF StoreTranscript
    <2> DEFINE t == "clean_text" \in ctx
               r == "segment_rows" \in ctx
    <2>2. /\ transcript' = [run |-> runs, from |-> from, text |-> t, rows |-> r, hinted |-> hinted]
          /\ t \in BOOLEAN /\ r \in BOOLEAN
        BY <1>8 DEF StoreTranscript
    <2>3. from \in 0..15 /\ hinted \in BOOLEAN /\ runs \in 0..MaxRuns
        BY DEF PipelineInv, StagesTyped
    <2> HIDE DEF t, r
    <2>4. transcript' \in StoredTranscripts
        BY <2>2, <2>3 DEF StoredTranscripts
    <2> QED
        BY <1>0, <2>1, <2>4, WorksTyped DEF StagesTyped
<1>9. CASE Analyse
    <2>1. Works("ai_analysis") /\ UNCHANGED <<hinted, temps, database>> /\ analysed' = transcript.run
        BY <1>9 DEF Analyse
    <2>2. transcript.run \in 0..MaxRuns
        BY DEF StagesTyped, StoredTranscripts
    <2> QED
        BY <1>0, <2>1, <2>2, WorksTyped DEF StagesTyped, database
<1>10. CASE StoreAIResults
    <2>1. /\ Works("store_ai_results") /\ UNCHANGED <<hinted, analysed, temps, transcript>>
          /\ analysis' = analysed
        BY <1>10 DEF StoreAIResults
    <2> QED
        BY <1>0, <2>1, WorksTyped DEF StagesTyped
<1>11. CASE StageFails \/ CancelRun \/ LoseWorker \/ Succeed \/ Retry \/ Requeue
    <2>1. status' \in PipelineStates /\ UNCHANGED <<runs, shared, temps, database>>
        BY <1>11 DEF StageFails, CancelRun, LoseWorker, Stop, Succeed, Retry, Requeue, PipelineStates
    <2> QED
        BY <2>1 DEF StagesTyped, shared, database
<1>12. CASE UNCHANGED pipelineVars
    BY <1>12 DEF pipelineVars, StagesTyped, shared, database
<1> QED
    BY <1>1, <1>3, <1>5, <1>6, <1>7, <1>8, <1>9, <1>10, <1>11, <1>12 DEF PipelineNext

\* Every reachable state of the runs and the meeting has the types PipelineTypeOK states.
THEOREM PipelineTypeCorrect == PipelineSpec => []PipelineTypeOK
<1>1. PipelineInit => StagesTyped
    <2> SUFFICES ASSUME PipelineInit PROVE StagesTyped
        OBVIOUS
    <2>1. /\ status = "queued" /\ runs = 0 /\ ctx = {} /\ hinted = FALSE /\ analysed = 0
          /\ temps = {} /\ analysis = 0
        BY DEF PipelineInit
    <2>2. transcript \in StoredTranscripts
        BY MaxRunsAssumption DEF PipelineInit, NoTranscript, StoredTranscripts
    <2>3. 0 \in 0..MaxRuns
        BY MaxRunsAssumption
    <2> QED
        BY <2>1, <2>2, <2>3 DEF StagesTyped, PipelineStates
<1>2. PipelineInv /\ StagesTyped => PipelineTypeOK
    <2>1. Len(Order) = 15
        BY TheOrder
    <2> QED
        BY <2>1 DEF PipelineInv, StagesTyped, PipelineStates, StoredTranscripts, PipelineTypeOK
<1> QED
    BY <1>1, <1>2, PipelineInvAlways, StagesTypedNext, PTL DEF PipelineSpec

-----------------------------------------------------------------------------
\* The consensus.
\* A computation that has looked the row up knows whether there is one.
Looked(c) == computing[c].pc \in {"found", "locked"}

\* The local variables of a computation.
ComputingTypes ==
    /\ DOMAIN computing = Computing
    /\ \A c \in Computing :
        /\ computing[c].pc \in {"idle", "gathered", "resolved", "found", "locked"}
        /\ computing[c].pc = "gathered" => computing[c].decisions \subseteq Decisions
        /\ computing[c].pc \in {"resolved", "found", "locked"} =>
              computing[c].answer.position \in Positions

\* A computation that overlapped no other knows the row it will replace.
Known ==
    \A c \in Computing : Looked(c) /\ consensus.trend = "none" => computing[c].existing.trend = "none"

\* As long as none have overlapped, nobody has changed the row since.
Alone ==
    ~interleaved =>
        /\ \A b, c \in Computing : computing[b].pc # "idle" /\ computing[c].pc # "idle" => b = c
        /\ \A c \in Computing : Looked(c) => computing[c].existing = consensus

\* The inductive invariant of the consensus.
ConsensusInv ==
    /\ interleaved \in BOOLEAN
    /\ revisions \in Seq(Positions)
    /\ ComputingTypes
    /\ Known
    /\ Alone
    /\ EvolutionIsTrue

\* Nothing has been computed.
LEMMA ConsensusInvInit == ConsensusInit => ConsensusInv
<1> SUFFICES ASSUME ConsensusInit PROVE ConsensusInv
    OBVIOUS
<1>1. ComputingTypes /\ Known /\ Alone
    BY DEF ConsensusInit, ComputingTypes, Known, Alone, Looked, NotComputing
<1>2. EvolutionIsTrue /\ revisions \in Seq(Positions)
    BY DEF ConsensusInit, EvolutionIsTrue, NoConsensus
<1> QED
    BY <1>1, <1>2 DEF ConsensusInv, ConsensusInit

\* What a computation does before it stores changes neither row nor timeline.
LEMMA ComputeKeeps ==
    ASSUME ConsensusInv, NEW c \in Computing,
           Gather(c) \/ Resolve(c) \/ LookUp(c) \/ Lock(c) \/ Abandon(c)
    PROVE  ConsensusInv'
<1> USE DEF ConsensusInv
<1>0. UNCHANGED <<consensus, revisions>>
    BY DEF Gather, Resolve, LookUp, Lock, Abandon
<1>1. CASE Gather(c)
    <2> USE <1>1 DEF Gather
    <2>1. interleaved' \in BOOLEAN /\ (~interleaved' => ~interleaved /\ \A b \in Computing : computing[b].pc = "idle")
        BY DEF ComputingTypes
    <2>2. ComputingTypes'
        BY DEF ComputingTypes, Standing
    <2>3. Known'
        BY <1>0 DEF Known, Looked, ComputingTypes
    <2>4. Alone'
        BY <2>1 DEF Alone, Looked, ComputingTypes
    <2>5. EvolutionIsTrue'
        BY <1>0, <2>1 DEF EvolutionIsTrue
    <2> QED
        BY <1>0, <2>1, <2>2, <2>3, <2>4, <2>5
<1>2. CASE Resolve(c)
    <2> USE <1>2 DEF Resolve
    <2>1. PICK a \in Answers(computing[c].decisions) :
             computing' = [computing EXCEPT ![c] = [pc |-> "resolved", answer |-> a]]
        OBVIOUS
    <2>2. a.position \in Positions
        BY DEF Answers, ComputingTypes, Positions
    <2>3. ComputingTypes'
        BY <2>1, <2>2 DEF ComputingTypes
    <2>4. Known' /\ Alone'
        BY <1>0, <2>1 DEF Known, Alone, Looked, ComputingTypes
    <2>5. EvolutionIsTrue'
        BY <1>0 DEF EvolutionIsTrue
    <2> QED
        BY <1>0, <2>3, <2>4, <2>5
<1>3. CASE LookUp(c) \/ Lock(c)
    <2> USE <1>3 DEF LookUp, Lock
    <2>1. ComputingTypes'
        BY DEF ComputingTypes
    <2>2. Known' /\ Alone'
        BY <1>0 DEF Known, Alone, Looked, ComputingTypes
    <2>3. EvolutionIsTrue'
        BY <1>0 DEF EvolutionIsTrue
    <2> QED
        BY <1>0, <2>1, <2>2, <2>3
<1>4. CASE Abandon(c)
    <2> USE <1>4 DEF Abandon, NotComputing
    <2>1. ComputingTypes'
        BY DEF ComputingTypes
    <2>2. Known' /\ Alone'
        BY <1>0 DEF Known, Alone, Looked, ComputingTypes
    <2>3. EvolutionIsTrue'
        BY <1>0 DEF EvolutionIsTrue
    <2> QED
        BY <1>0, <2>1, <2>2, <2>3
<1> QED
    BY <1>1, <1>2, <1>3, <1>4

\* The computation that stores moves the row and the timeline together.
LEMMA StoreKeeps ==
    ASSUME ConsensusInv, NEW c \in Computing, Store(c)
    PROVE  ConsensusInv'
<1> DEFINE a == computing[c].answer
           existing == computing[c].existing
           trend == Trend(existing, a)
           revs == IF trend \in {"new", "shifting"} THEN Append(revisions, a.position) ELSE revisions
<1>0. computing[c].pc = "locked" /\ Looked(c) /\ a.position \in Positions
    BY DEF Store, Looked, ConsensusInv, ComputingTypes
<1>1. /\ consensus' = [trend |-> trend, position |-> a.position, confidence |-> a.confidence,
                       stability |-> Stability(revs)]
      /\ revisions' = revs
      /\ computing' = [computing EXCEPT ![c] = NotComputing]
      /\ UNCHANGED interleaved
    BY DEF Store
<1>2. trend # "none" /\ (trend = "new" <=> existing.trend = "none")
    BY DEF Trend
<1>3. trend \notin {"new", "shifting"} => existing.position = a.position
    BY DEF Trend
<1>4. trend = "shifting" => existing.position # a.position
    BY DEF Trend
<1>5. existing.trend # "none" => consensus.trend # "none" /\ revisions # <<>>
    BY <1>0 DEF ConsensusInv, Known, EvolutionIsTrue
<1>6. ~interleaved => existing = consensus /\ \A b \in Computing \ {c} : computing[b].pc = "idle"
    BY <1>0 DEF ConsensusInv, Alone, ComputingTypes
<1> HIDE DEF a, existing, trend
<1>7. revs \in Seq(Positions) /\ revs # <<>>
    <2>1. CASE trend \in {"new", "shifting"}
        <3>1. revs = Append(revisions, a.position)
            BY <2>1
        <3> HIDE DEF revs
        <3> QED
            BY <1>0, <3>1, AppendProperties DEF ConsensusInv
    <2>2. CASE trend \notin {"new", "shifting"}
        BY <1>2, <1>5, <2>2 DEF ConsensusInv
    <2> QED
        BY <2>1, <2>2
<1>8. ~interleaved => \A i \in 1..Len(revs) :
           IF i = Len(revs) THEN revs[i] = a.position ELSE revs[i] # revs[i + 1]
    <2> SUFFICES ASSUME ~interleaved, NEW i \in 1..Len(revs)
                 PROVE  IF i = Len(revs) THEN revs[i] = a.position ELSE revs[i] # revs[i + 1]
        OBVIOUS
    <2> DEFINE n == Len(revisions)
    <2>0. n \in Nat
        BY DEF ConsensusInv
    <2>1. \A j \in 1..n : IF j = n THEN revisions[j] = consensus.position
                          ELSE revisions[j] # revisions[j + 1]
        BY DEF ConsensusInv, EvolutionIsTrue
    <2>2. revisions # <<>> <=> consensus.trend # "none"
        BY DEF ConsensusInv, EvolutionIsTrue
    <2>3. CASE trend \in {"new", "shifting"}
        <3>1. revs = Append(revisions, a.position)
            BY <2>3
        <3> HIDE DEF revs
        <3>2. /\ Len(revs) = n + 1
              /\ \A j \in 1..n : revs[j] = revisions[j]
              /\ revs[n + 1] = a.position
            BY <1>0, <3>1, AppendProperties DEF ConsensusInv
        <3>3. n # 0 => revisions[n] # a.position
            <4>1. CASE trend = "new"
                BY <1>2, <1>6, <2>2, <4>1 DEF ConsensusInv
            <4>2. CASE trend = "shifting"
                <5>1. consensus.position # a.position
                    BY <1>4, <1>6, <4>2
                <5>2. n # 0 => revisions[n] = consensus.position
                    BY <2>0, <2>1
                <5> QED
                    BY <5>1, <5>2
            <4> QED
                BY <2>3, <4>1, <4>2
        <3> HIDE DEF n
        <3>4. CASE i = n + 1
            BY <3>2, <3>4
        <3>5. CASE i = n
            BY <2>0, <3>2, <3>3, <3>5
        <3>6. CASE i < n
            <4>1. i \in 1..n /\ i + 1 \in 1..n /\ i # n
                BY <2>0, <3>6
            <4> QED
                BY <2>1, <3>2, <4>1
        <3> QED
            BY <2>0, <3>2, <3>4, <3>5, <3>6
    <2>4. CASE trend \notin {"new", "shifting"}
        <3>1. revs = revisions /\ consensus.position = a.position
            BY <1>3, <1>6, <2>4
        <3> HIDE DEF revs
        <3> QED
            BY <2>1, <3>1
    <2> QED
        BY <2>3, <2>4
<1> HIDE DEF revs
<1>9. EvolutionIsTrue'
    <2>1. revisions' # <<>> <=> consensus'.trend # "none"
        BY <1>1, <1>2, <1>7
    <2>2. consensus'.stability = Stability(revisions')
        BY <1>1
    <2>3. ~interleaved' => \A i \in 1..Len(revisions') :
              IF i = Len(revisions') THEN revisions'[i] = consensus'.position
              ELSE revisions'[i] # revisions'[i + 1]
        BY <1>1, <1>8
    <2> QED
        BY <2>1, <2>2, <2>3 DEF EvolutionIsTrue, Stability
<1>10. ComputingTypes'
    BY <1>1 DEF ConsensusInv, ComputingTypes, NotComputing
<1>11. Known'
    BY <1>1, <1>2 DEF Known
<1>12. Alone'
    BY <1>1, <1>6 DEF ConsensusInv, Alone, Looked, ComputingTypes, NotComputing
<1> QED
    BY <1>1, <1>7, <1>9, <1>10, <1>11, <1>12 DEF ConsensusInv

\* Every step.
LEMMA ConsensusInvNext == ConsensusInv /\ [ConsensusNext]_consensusVars => ConsensusInv'
<1> SUFFICES ASSUME ConsensusInv, [ConsensusNext]_consensusVars PROVE ConsensusInv'
    OBVIOUS
<1>1. ASSUME UNCHANGED <<consensus, revisions, computing, interleaved>> PROVE ConsensusInv'
    BY <1>1 DEF ConsensusInv, ComputingTypes, Known, Alone, Looked, EvolutionIsTrue
<1>2. CASE UNCHANGED consensusVars
    BY <1>1, <1>2 DEF consensusVars
<1>3. ASSUME NEW d \in Decisions, Reverse(d) PROVE ConsensusInv'
    BY <1>1, <1>3 DEF Reverse
<1>4. ASSUME NEW s \in ConflictStatus, Settle(s) PROVE ConsensusInv'
    BY <1>1, <1>4 DEF Settle
<1> QED
    BY <1>2, <1>3, <1>4, ComputeKeeps, StoreKeeps DEF ConsensusNext, ComputeStep

\* The timeline of a topic tells how its position moved, for any decisions, any
\* number of computations, and users who settle the conflict meanwhile.
THEOREM TimelineIsTrue == ConsensusSpec => []EvolutionIsTrue
<1>1. ConsensusInv => EvolutionIsTrue
    BY DEF ConsensusInv
<1> QED
    BY ConsensusInvInit, ConsensusInvNext, <1>1, PTL DEF ConsensusSpec

-----------------------------------------------------------------------------
\* The executive view.
\* A key of a table of alerts or recommendations and the columns of its row.
HasRows(table, keys) ==
    /\ DOMAIN table = keys
    /\ \A k \in keys : DOMAIN table[k] = {"status", "sv", "kv", "by"}

\* The inductive invariant of the dashboard.
ExecutiveInv ==
    /\ HasRows(alerts, AlertKeys)
    /\ HasRows(recs, Advice)
    /\ DashboardIsOneWrite

\* Nothing has been shown.
LEMMA ExecutiveInvInit == ExecutiveInit => ExecutiveInv
BY DEF ExecutiveInit, ExecutiveInv, HasRows, DashboardIsOneWrite, NoRow

\* A refresh stamps everything it opens with the versions it stores.
LEMMA WriteKeepsOneWrite ==
    ASSUME ExecutiveInv, NEW m \in Refreshers, WriteOrganization(m)
    PROVE  ExecutiveInv'
<1> DEFINE f == refresh[m]
           points == MetricPoints(f.level)
<1>0. /\ orgSnap' = [sv |-> f.sv, kv |-> f.kv, level |-> f.level]
      /\ alerts' = AlertsFrom(points, f.kv, f.sv)
      /\ recs' = RecsFrom(f.kv, f.sv)
      /\ predictions' \in PredictionsFrom(points, f.sv)
    BY DEF WriteOrganization
<1> HIDE DEF f, points
<1>1. orgSnap'.sv = f.sv /\ orgSnap'.kv = f.kv
    BY <1>0
<1>2. HasRows(alerts', AlertKeys) /\ HasRows(recs', Advice)
    BY <1>0 DEF ExecutiveInv, HasRows, AlertsFrom, RecsFrom, Retired
<1>3. ASSUME NEW a \in AlertKeys, alerts'[a].status = "open", alerts'[a].by = "refresh"
      PROVE  alerts'[a].sv = f.sv /\ alerts'[a].kv = f.kv
    <2>1. CASE a \in Candidates(points)
        BY <1>0, <2>1 DEF AlertsFrom
    <2>2. CASE a \notin Candidates(points)
        <3>1. alerts'[a] = Retired(alerts[a], "resolved")
            BY <1>0, <2>2 DEF AlertsFrom
        <3>2. alerts'[a].status # "open"
            BY <3>1 DEF Retired, ExecutiveInv, HasRows
        <3> QED
            BY <1>3, <3>2
    <2> QED
        BY <2>1, <2>2
<1>4. ASSUME NEW r \in Advice, recs'[r].status = "open", recs'[r].by = "refresh"
      PROVE  recs'[r].sv = f.sv /\ recs'[r].kv = f.kv
    <2>1. CASE r \in Advised
        BY <1>0, <2>1 DEF RecsFrom
    <2>2. CASE r \notin Advised
        <3>1. recs'[r] = Retired(recs[r], "done")
            BY <1>0, <2>2 DEF RecsFrom
        <3>2. recs'[r].status # "open"
            BY <3>1 DEF Retired, ExecutiveInv, HasRows
        <3> QED
            BY <1>4, <3>2
    <2> QED
        BY <2>1, <2>2
<1>5. predictions' \subseteq {f.sv}
    BY <1>0 DEF PredictionsFrom, Falling
<1> QED
    BY <1>1, <1>2, <1>3, <1>4, <1>5 DEF ExecutiveInv, DashboardIsOneWrite

\* Every step.
LEMMA ExecutiveInvNext == ExecutiveInv /\ [ExecutiveNext]_executiveVars => ExecutiveInv'
<1> SUFFICES ASSUME ExecutiveInv, [ExecutiveNext]_executiveVars PROVE ExecutiveInv'
    OBVIOUS
<1>1. ASSUME UNCHANGED <<orgSnap, alerts, recs, predictions>> PROVE ExecutiveInv'
    BY <1>1 DEF ExecutiveInv, HasRows, DashboardIsOneWrite
<1>2. CASE UNCHANGED executiveVars
    BY <1>1, <1>2 DEF executiveVars
<1>3. CASE NewKnowledge \/ WorkspaceChanges
    BY <1>1, <1>3 DEF NewKnowledge, WorkspaceChanges, stored
<1>4. ASSUME NEW m \in Refreshers,
             \/ StartRefresh(m) \/ StartDashboard(m) \/ ReadProject(m) \/ SaveProject(m)
             \/ ReadHealth(m) \/ ReadVersions(m) \/ AbandonRefresh(m)
      PROVE  ExecutiveInv'
    BY <1>1, <1>4 DEF StartRefresh, StartDashboard, ReadProject, SaveProject, ReadHealth, ReadVersions,
                      AbandonRefresh, MayStart, stored
<1>5. ASSUME NEW m \in Refreshers, WriteOrganization(m) PROVE ExecutiveInv'
    BY <1>5, WriteKeepsOneWrite
<1>6. ASSUME NEW a \in AlertKeys, NEW s \in AlertStatus, SetAlertStatus(a, s)
      PROVE  ExecutiveInv'
    <2>1. /\ alerts' = [alerts EXCEPT ![a].status = s, ![a].by = "user"]
          /\ UNCHANGED <<orgSnap, recs, predictions>>
        BY <1>6 DEF SetAlertStatus
    <2>2. HasRows(alerts', AlertKeys) /\ alerts'[a].by = "user"
        BY <2>1 DEF ExecutiveInv, HasRows
    <2>3. \A b \in AlertKeys \ {a} : alerts'[b] = alerts[b]
        BY <2>1 DEF ExecutiveInv, HasRows
    <2> QED
        BY <2>1, <2>2, <2>3 DEF ExecutiveInv, HasRows, DashboardIsOneWrite
<1>7. ASSUME NEW r \in Advice, NEW s \in RecommendationStatus, SetRecommendationStatus(r, s)
      PROVE  ExecutiveInv'
    <2>1. /\ recs' = [recs EXCEPT ![r].status = s, ![r].by = "user"]
          /\ UNCHANGED <<orgSnap, alerts, predictions>>
        BY <1>7 DEF SetRecommendationStatus
    <2>2. HasRows(recs', Advice) /\ recs'[r].by = "user"
        BY <2>1 DEF ExecutiveInv, HasRows
    <2>3. \A b \in Advice \ {r} : recs'[b] = recs[b]
        BY <2>1 DEF ExecutiveInv, HasRows
    <2> QED
        BY <2>1, <2>2, <2>3 DEF ExecutiveInv, HasRows, DashboardIsOneWrite
<1> QED
    BY <1>2, <1>3, <1>4, <1>5, <1>6, <1>7 DEF ExecutiveNext, RefreshStep, UserStep

\* Whatever refreshes overlap, and whatever users do to alerts meanwhile, what a
\* dashboard shows beside the snapshot was stored with it.
THEOREM OneWriteOnDashboard == ExecutiveSpec => []DashboardIsOneWrite
<1>1. ExecutiveInv => DashboardIsOneWrite
    BY DEF ExecutiveInv
<1> QED
    BY ExecutiveInvInit, ExecutiveInvNext, <1>1, PTL DEF ExecutiveSpec

-----------------------------------------------------------------------------
\* The voice identities.
\* What recompute saves, when the rows read are those that are there.
SavedRow(o, p) ==
    [state |-> IF o.op \in {"create", "split"} /\ p = o.to THEN "live" ELSE person[p].state,
     confirmed |-> person[p].confirmed \/ (o.op \in {"create", "split"} /\ p = o.to),
     profile |-> Linked(Relinked(o), p)]

\* A request that met nobody has read what is there.
RequestOK(r) ==
    /\ r.o \in Operations
    /\ r.pc = "read" => r.rows = person
    /\ r.pc = "computed" =>
          /\ r.links = {s \in Speakers : Relinked(r.o)[s] # voice[s]}
          /\ r.rows = [p \in Recomputed(r.o) |-> SavedRow(r.o, p)]

\* The fields of a row, and of a request, whatever it met.
PersonShape(row) == DOMAIN row = {"state", "confirmed", "profile"}
RequestShape(r) ==
    /\ r.pc \in {"idle", "read", "computed"}
    /\ r.pc # "idle" => r.o.to \in People
    /\ r.pc = "computed" => /\ r.links \subseteq Speakers
                            /\ DOMAIN r.rows = Recomputed(r.o)
                            /\ \A p \in DOMAIN r.rows : PersonShape(r.rows[p])

\* A profile is of the linked speakers, and a link leads to an identity.
Profiles == \A p \in Live \ stale : person[p].profile = Linked(voice, p)
Links == \A s \in Speakers : voice[s] # "nobody" => voice[s] \in Live \cup stale

\* The inductive invariant of the voice identities: who has met nobody is alone.
VoiceInv ==
    /\ DOMAIN request = VoiceUsers
    /\ voice \in [Speakers -> People \cup {"nobody"}]
    /\ \A p \in People : PersonShape(person[p])
    /\ \A u \in VoiceUsers : RequestShape(request[u])
    /\ \A u \in Busy \ met : Busy \subseteq {u} /\ RequestOK(request[u])
    /\ Profiles
    /\ Links

\* No identity and no link.
LEMMA VoiceInvInit == VoiceInit => VoiceInv
<1> SUFFICES ASSUME VoiceInit PROVE VoiceInv
    OBVIOUS
<1>1. Live = {} /\ Busy = {}
    BY DEF VoiceInit, Live, Busy, NoPerson, Waiting
<1>2. \A u \in VoiceUsers : RequestShape(request[u])
    BY DEF VoiceInit, RequestShape, Waiting
<1>3. \A s \in Speakers : voice[s] = "nobody"
    BY DEF VoiceInit
<1>4. voice \in [Speakers -> People \cup {"nobody"}] /\ \A p \in People : PersonShape(person[p])
    BY DEF VoiceInit, NoPerson, PersonShape
<1> QED
    BY <1>1, <1>2, <1>3, <1>4 DEF VoiceInit, VoiceInv, Profiles, Links

\* Which operations there are.
LEMMA OperationIs ==
    ASSUME NEW o \in Operations, voice \in [Speakers -> People \cup {"nobody"}]
    PROVE  \/ o.op = "create" /\ o.to \in People /\ person[o.to].state = "none"
           \/ o.op = "link" /\ o.to \in Live
           \/ /\ o.op = "unlink" /\ o.to \in People
              /\ \A s \in o.ids : voice[s] = o.to
           \/ o.op = "merge" /\ o.to \in Live /\ o.from \in Live
           \/ o.op = "split" /\ o.to \in People /\ o.from \in Live /\ person[o.to].state = "none"
           \/ o.op \in {"confirm", "destroy"} /\ o.to \in Live
<1>1. CASE o \in {[op |-> "create", to |-> p, from |-> "nobody", ids |-> {s}] :
                    p \in {q \in People : person[q].state = "none"}, s \in Speakers \ gone}
    BY <1>1
<1>2. CASE o \in {[op |-> "link", to |-> p, from |-> "nobody", ids |-> {s}] :
                    p \in Live, s \in Speakers \ gone}
    BY <1>2
<1>3. CASE o \in {[op |-> "unlink", to |-> voice[s], from |-> "nobody", ids |-> {s}] :
                    s \in {q \in Speakers : voice[q] # "nobody"}}
    BY <1>3
<1>4. CASE o \in {[op |-> "merge", to |-> p, from |-> q, ids |-> {}] : p \in Live, q \in Live}
    BY <1>4
<1>5. CASE o \in {[op |-> "split", to |-> p, from |-> q, ids |-> ids] :
                    p \in {r \in People : person[r].state = "none"}, q \in Live, ids \in SUBSET Speakers}
    BY <1>5
<1>6. CASE o \in {[op |-> x, to |-> p, from |-> "nobody", ids |-> {}] : x \in {"confirm", "destroy"}, p \in Live}
    BY <1>6
<1> QED
    BY <1>1, <1>2, <1>3, <1>4, <1>5, <1>6 DEF Operations

\* A step of one request that changes no row and no link.
LEMMA RequestStepKeeps ==
    ASSUME VoiceInv, NEW u \in VoiceUsers, NEW x, request' = [request EXCEPT ![u] = x],
           UNCHANGED <<voice, gone, person, stale>>, RequestShape(x),
           \A v \in Busy : v = u \/ v \in met',
           x.pc # "idle" /\ u \notin met' => Busy \subseteq {u} /\ RequestOK(x)
    PROVE  VoiceInv'
<1>0. DOMAIN request = VoiceUsers /\ DOMAIN request' = VoiceUsers
    BY DEF VoiceInv
<1>1. request'[u] = x /\ \A v \in VoiceUsers : v # u => request'[v] = request[v]
    BY <1>0
<1>2. /\ Operations' = Operations
      /\ \A o : Relinked(o)' = Relinked(o) /\ Recomputed(o)' = Recomputed(o)
    BY DEF Operations, Relinked, Recomputed, Live
<1>3. \A o, p : SavedRow(o, p)' = SavedRow(o, p)
    BY <1>2 DEF SavedRow
<1>4. \A v \in VoiceUsers : RequestShape(request[v])'
    BY <1>1, <1>2 DEF VoiceInv, RequestShape, PersonShape
<1>5. ASSUME NEW v \in Busy' \ met' PROVE Busy' \subseteq {v} /\ RequestOK(request[v])'
    <2>1. v = u /\ x.pc # "idle"
        BY <1>1, <1>5 DEF Busy
    <2>2. Busy \subseteq {u} /\ RequestOK(x)
        BY <1>5, <2>1
    <2>3. Busy' \subseteq {u}
        BY <1>1, <2>2 DEF Busy
    <2> QED
        BY <1>1, <1>2, <1>3, <2>1, <2>2, <2>3 DEF RequestOK
<1>6. Profiles' /\ Links'
    BY DEF VoiceInv, Profiles, Links, Live, Linked
<1> QED
    BY <1>0, <1>4, <1>5, <1>6 DEF VoiceInv, PersonShape

\* A request reads the rows it names.
LEMMA ReadRowsKeeps ==
    ASSUME VoiceInv, NEW u \in VoiceUsers, ReadRows(u)
    PROVE  VoiceInv'
<1>1. PICK o \in Operations :
        request' = [request EXCEPT ![u] = [pc |-> "read", o |-> o, rows |-> person]]
    BY DEF ReadRows
<1> DEFINE x == [pc |-> "read", o |-> o, rows |-> person]
<1>2. /\ \A v \in Busy : v = u \/ v \in met'
      /\ u \notin met' => Busy \subseteq {u}
    BY DEF ReadRows
<1>3. RequestOK(x)
    BY DEF RequestOK
<1>4. o.to \in People
    BY OperationIs DEF VoiceInv, Live
<1>5. RequestShape(x)
    BY <1>4 DEF RequestShape
<1>6. UNCHANGED <<voice, gone, person, stale>>
    BY DEF ReadRows
<1> HIDE DEF x
<1> QED
    BY <1>1, <1>2, <1>3, <1>5, <1>6, RequestStepKeeps DEF x

\* A request that is under way is alone, or all of them met somebody.
LEMMA AloneOrMet ==
    ASSUME VoiceInv, NEW u \in Busy
    PROVE  \A v \in Busy : v = u \/ v \in met
BY DEF VoiceInv

\* A request is refused.
LEMMA RefuseKeeps ==
    ASSUME VoiceInv, NEW u \in VoiceUsers, RefuseVoice(u)
    PROVE  VoiceInv'
<1>1. /\ request' = [request EXCEPT ![u] = Waiting] /\ met' = met \ {u}
      /\ UNCHANGED <<voice, gone, person, stale>> /\ u \in Busy
    BY DEF RefuseVoice, Busy
<1>2. RequestShape(Waiting) /\ Waiting.pc = "idle"
    BY DEF RequestShape, Waiting
<1>3. \A v \in Busy : v = u \/ v \in met'
    BY <1>1, AloneOrMet
<1> QED
    BY <1>1, <1>2, <1>3, RequestStepKeeps

\* A request computes on what it has read.
LEMMA VoiceComputeKeeps ==
    ASSUME VoiceInv, NEW u \in VoiceUsers, Compute(u)
    PROVE  VoiceInv'
<1>0. /\ request[u].pc = "read" /\ UNCHANGED <<voice, gone, person, stale>>
      /\ met' = met /\ u \in Busy
    BY DEF Compute, Busy
<1> DEFINE o == request[u].o
           rows == IF o.op = "unlink" THEN person ELSE request[u].rows
           new == {p \in {o.to} : o.op \in {"create", "split"}}
           x == [pc |-> "computed", o |-> o, writes |-> Rewrites(o),
                 links |-> {s \in Speakers : Relinked(o)[s] # voice[s]},
                 rows |-> [p \in Recomputed(o) |->
                             [state |-> IF p \in new THEN "live" ELSE rows[p].state,
                              confirmed |-> rows[p].confirmed \/ p \in new,
                              profile |-> Linked(Relinked(o), p)]]]
<1>1. request' = [request EXCEPT ![u] = x]
    BY DEF Compute
<1>2. RequestShape(x)
    <2>1. o.to \in People
        BY <1>0 DEF VoiceInv, RequestShape
    <2> HIDE DEF o, rows, new
    <2> QED
        BY <2>1 DEF RequestShape, PersonShape
<1>3. ASSUME u \notin met PROVE Busy \subseteq {u} /\ RequestOK(x)
    <2>1. o \in Operations /\ rows = person /\ Busy \subseteq {u}
        BY <1>0, <1>3 DEF VoiceInv, RequestOK
    <2>2. \A p : p \in new <=> o.op \in {"create", "split"} /\ p = o.to
        OBVIOUS
    <2> HIDE DEF o, rows, new
    <2>3. x.rows = [p \in Recomputed(o) |-> SavedRow(o, p)]
        BY <2>1, <2>2 DEF SavedRow
    <2> QED
        BY <2>1, <2>3 DEF RequestOK
<1>4. \A v \in Busy : v = u \/ v \in met'
    BY <1>0, AloneOrMet
<1> HIDE DEF x
<1> QED
    BY <1>0, <1>1, <1>2, <1>3, <1>4, RequestStepKeeps

\* A deletion of speakers leaves the identities they were linked to stale.
LEMMA DeleteKeeps ==
    ASSUME VoiceInv, NEW ids \in SUBSET Speakers, DeleteSpeakers(ids)
    PROVE  VoiceInv'
<1>1. /\ voice' = [s \in Speakers |-> IF s \in ids THEN "nobody" ELSE voice[s]]
      /\ stale' = stale \cup ({voice[s] : s \in ids} \ {"nobody"})
      /\ met' = met \cup Busy /\ UNCHANGED <<person, request>>
    BY DEF DeleteSpeakers
<1>2. Live' = Live /\ Busy' = Busy
    BY <1>1 DEF Live, Busy
<1>3. voice' \in [Speakers -> People \cup {"nobody"}]
    BY <1>1 DEF VoiceInv
<1>4. \A u \in VoiceUsers : RequestShape(request[u])'
    BY <1>1 DEF VoiceInv, RequestShape, PersonShape, Recomputed
<1>5. ASSUME NEW p \in Live' \ stale' PROVE person'[p].profile = Linked(voice', p)
    <2>1. p \in Live \ stale /\ p # "nobody" /\ \A s \in ids : voice[s] # p
        BY <1>1, <1>2, <1>5, VoiceAssumption DEF Live
    <2>2. Linked(voice', p) = Linked(voice, p)
        BY <1>1, <2>1 DEF Linked
    <2> QED
        BY <1>1, <2>1, <2>2 DEF VoiceInv, Profiles
<1>6. Links'
    BY <1>1, <1>2 DEF VoiceInv, Links
<1> QED
    BY <1>1, <1>2, <1>3, <1>4, <1>5, <1>6 DEF VoiceInv, PersonShape, Profiles, Linked

\* What any commit leaves well formed, and alone who was alone.
LEMMA CommitShapes ==
    ASSUME VoiceInv, NEW u \in VoiceUsers, CommitVoice(u)
    PROVE  /\ DOMAIN request' = VoiceUsers
           /\ voice' \in [Speakers -> People \cup {"nobody"}]
           /\ \A p \in People : PersonShape(person'[p])
           /\ \A v \in VoiceUsers : RequestShape(request[v])'
           /\ Busy' \ met' = {}
<1>1. /\ DOMAIN request = VoiceUsers /\ request[u].pc = "computed"
      /\ request' = [request EXCEPT ![u] = Waiting] /\ met' = met \ {u} /\ u \in Busy
    BY DEF VoiceInv, CommitVoice, Busy
<1>c. PICK r : r = request[u]
    OBVIOUS
<1>2. /\ voice' = [s \in Speakers |-> IF s \in r.links THEN LinkOf(r.o) ELSE voice[s]]
      /\ person' = [p \in People |-> Saved(r, p)]
    BY <1>c DEF CommitVoice
<1>3. /\ r.o.to \in People /\ \A p \in DOMAIN r.rows : PersonShape(r.rows[p])
      /\ voice \in [Speakers -> People \cup {"nobody"}] /\ \A p \in People : PersonShape(person[p])
    BY <1>1, <1>c DEF VoiceInv, RequestShape
<1>4. voice' \in [Speakers -> People \cup {"nobody"}]
    BY <1>2, <1>3 DEF LinkOf
<1>5. ASSUME NEW p \in People PROVE PersonShape(person'[p])
    BY <1>2, <1>3 DEF Saved, PersonShape
<1>6. ASSUME NEW v \in VoiceUsers PROVE RequestShape(request[v])'
    <2>1. request'[v] = Waiting \/ request'[v] = request[v]
        BY <1>1
    <2>2. RequestShape(request'[v])
        BY <2>1 DEF VoiceInv, RequestShape, Waiting
    <2> QED
        BY <2>2 DEF RequestShape, PersonShape, Recomputed
<1>7. Busy' \ met' = {}
    BY <1>1, AloneOrMet DEF Busy, Waiting
<1> QED
    BY <1>1, <1>4, <1>5, <1>6, <1>7

\* The commit of a request that met another: what it touched is stale.
LEMMA MetCommitKeeps ==
    ASSUME VoiceInv, NEW u \in VoiceUsers, CommitVoice(u), u \in met
    PROVE  Profiles' /\ Links'
<1>c. PICK r : r = request[u]
    OBVIOUS
<1> DEFINE touched == DOMAIN r.rows \cup {r.o.to, r.o.from} \cup {voice[s] : s \in r.links}
<1>1. /\ voice' = [s \in Speakers |-> IF s \in r.links THEN LinkOf(r.o) ELSE voice[s]]
      /\ person' = [p \in People |-> Saved(r, p)]
      /\ stale' = stale \cup (touched \ {"nobody"})
    BY <1>c DEF CommitVoice, StaleAfter
<1>2. ASSUME NEW p \in People, p \notin touched
      PROVE  person'[p] = person[p] /\ Linked(voice', p) = Linked(voice, p)
    <2>1. person'[p] = person[p]
        BY <1>1, <1>2 DEF Saved
    <2>2. p # LinkOf(r.o)
        BY <1>2, VoiceAssumption DEF LinkOf
    <2> QED
        BY <1>1, <1>2, <2>1, <2>2 DEF Linked
<1>3. "nobody" \notin People
    BY VoiceAssumption
<1>4. Profiles'
    <2> SUFFICES ASSUME NEW p \in Live' \ stale' PROVE person'[p].profile = Linked(voice', p)
        BY DEF Profiles, Linked
    <2>1. p \in People /\ p \notin touched /\ p \notin stale
        BY <1>1, <1>3 DEF Live
    <2>2. person'[p] = person[p] /\ Linked(voice', p) = Linked(voice, p)
        BY <1>2, <2>1
    <2>3. p \in Live \ stale
        BY <2>1, <2>2 DEF Live
    <2> QED
        BY <2>2, <2>3 DEF VoiceInv, Profiles
<1>5. Links'
    <2> SUFFICES ASSUME NEW s \in Speakers, voice'[s] # "nobody" PROVE voice'[s] \in Live' \cup stale'
        BY DEF Links
    <2>1. CASE voice'[s] \in touched
        BY <1>1, <2>1
    <2>2. CASE voice'[s] \notin touched
        <3>1. voice'[s] = voice[s]
            BY <1>1, <2>2 DEF LinkOf
        <3>2. voice[s] \in Live \cup stale /\ voice[s] \in People
            BY <3>1 DEF VoiceInv, Links
        <3>3. person'[voice[s]] = person[voice[s]]
            BY <1>2, <2>2, <3>1, <3>2
        <3> QED
            BY <1>1, <3>1, <3>2, <3>3 DEF Live
    <2> QED
        BY <2>1, <2>2
<1> QED
    BY <1>4, <1>5

\* What the commit of a request that met nobody leaves.
LEMMA AloneCommitKeeps ==
    ASSUME VoiceInv, NEW u \in VoiceUsers, CommitVoice(u), u \notin met
    PROVE  Profiles' /\ Links'
<1>0. request[u].pc = "computed" /\ u \in Busy \ met
    BY DEF CommitVoice, Busy
<1>c. PICK r : r = request[u]
    OBVIOUS
<1>o. PICK o : o = r.o
    OBVIOUS
<1>1. /\ o \in Operations /\ voice \in [Speakers -> People \cup {"nobody"}]
      /\ r.links = {s \in Speakers : Relinked(o)[s] # voice[s]}
      /\ r.rows = [p \in Recomputed(o) |-> SavedRow(o, p)]
      /\ Profiles /\ Links /\ \A p \in People : PersonShape(person[p])
    BY <1>0, <1>c, <1>o DEF VoiceInv, RequestOK
<1>2. /\ voice' = [s \in Speakers |-> IF s \in r.links THEN LinkOf(o) ELSE voice[s]]
      /\ person' = [p \in People |-> Saved(r, p)]
    BY <1>c, <1>o DEF CommitVoice
<1>3. /\ \A p : p \in stale /\ p \notin stale' => p \in Recomputed(o) /\ p \in Live
      /\ o.op \in {"create", "link"} => \A s \in r.links : voice[s] \in stale' \cup {"nobody"}
      /\ o.op = "destroy" => o.to \in stale'
    <2>1. DOMAIN r.rows = Recomputed(o)
        BY <1>1
    <2>2. stale' = (stale \ (DOMAIN r.rows \cap Live)) \cup LeftBehind(r)
                      \cup {p \in {o.to} : o.op = "destroy"}
        BY <1>c, <1>o DEF CommitVoice, StaleAfter
    <2> QED
        BY <1>o, <2>1, <2>2 DEF LeftBehind
<1>5. \A s \in Speakers : Relinked(o)[s] = voice[s] \/ Relinked(o)[s] = LinkOf(o)
    BY <1>1 DEF Relinked, LinkOf
<1>6. \A s \in Speakers : voice'[s] = Relinked(o)[s]
    BY <1>1, <1>2, <1>5
<1>7. /\ LinkOf(o) \in People \cup {"nobody"}
      /\ voice' \in [Speakers -> People \cup {"nobody"}]
    BY <1>1, <1>2, OperationIs DEF LinkOf, Live
<1>8. \A p : Linked(voice', p) = Linked(Relinked(o), p)
    BY <1>6 DEF Linked
<1>9. ASSUME NEW p \in People, p \in Recomputed(o)
      PROVE  /\ person'[p].profile = Linked(voice', p)
             /\ person'[p].state = IF o.op \in {"create", "split"} /\ p = o.to THEN "live"
                                   ELSE person[p].state
             /\ PersonShape(person'[p])
    <2>1. person'[p] = SavedRow(o, p)
        BY <1>1, <1>2, <1>9 DEF Saved
    <2> QED
        BY <1>8, <2>1 DEF SavedRow, PersonShape
<1>10. ASSUME NEW p \in People, p \notin Recomputed(o)
       PROVE  /\ person'[p].profile = person[p].profile
              /\ person'[p].state = person[p].state \/ person'[p].state = "deleted"
              /\ person'[p].state = "deleted" /\ person[p].state # "deleted" =>
                    \/ o.op = "merge" /\ p = o.from /\ p # o.to
                    \/ o.op = "destroy" /\ p = o.to
              /\ o.op = "merge" /\ p = o.from /\ p # o.to => person'[p].state = "deleted"
              /\ PersonShape(person'[p])
    <2>1. p \notin DOMAIN r.rows
        BY <1>1, <1>10
    <2>2. PersonShape(person[p])
        BY <1>1
    <2> QED
        BY <1>2, <1>o, <2>1, <2>2 DEF Saved, PersonShape
<1>11. /\ \A s \in Speakers : voice'[s] # voice[s] =>
             /\ voice'[s] = LinkOf(o)
             /\ o.op \in {"create", "link", "unlink", "merge", "split"}
             /\ o.op \in {"create", "link"} => s \in r.links
             /\ o.op = "unlink" => voice[s] = o.to
             /\ o.op \in {"merge", "split"} => voice[s] = o.from
             /\ o.op = "merge" => o.to # o.from
       /\ o.op = "merge" /\ o.to # o.from => \A s \in Speakers : voice[s] = o.from => voice'[s] = o.to
    <2>1. ASSUME NEW s \in Speakers, voice'[s] # voice[s]
          PROVE  voice'[s] = LinkOf(o) /\ s \in r.links /\ Relinked(o)[s] # voice[s]
        BY <1>1, <1>2, <2>1
    <2>2. ASSUME NEW s \in Speakers, Relinked(o)[s] # voice[s]
          PROVE  /\ o.op \in {"create", "link", "unlink", "merge", "split"}
                 /\ o.op = "unlink" => s \in o.ids
                 /\ o.op \in {"merge", "split"} => voice[s] = o.from
                 /\ o.op = "merge" => o.to # o.from
        BY <2>2 DEF Relinked
    <2>3. o.op = "unlink" => \A s \in o.ids : voice[s] = o.to
        BY <1>1, OperationIs
    <2>4. o.op = "merge" /\ o.to # o.from =>
             \A s \in Speakers : voice[s] = o.from => Relinked(o)[s] = o.to
        BY DEF Relinked
    <2> QED
        BY <1>6, <2>1, <2>2, <2>3, <2>4
<1>12. /\ o.op \in {"create", "link", "unlink", "split"} => o.to \in Recomputed(o)
       /\ o.op = "merge" /\ o.to # o.from => o.to \in Recomputed(o) /\ o.from \notin Recomputed(o)
       /\ o.op = "split" => o.from \in Recomputed(o)
    BY DEF Recomputed
<1>13. /\ Live = {p \in People : person[p].state = "live"}
       /\ Live' = {p \in People : person'[p].state = "live"}
    BY DEF Live
<1>14. "nobody" \notin People
    BY VoiceAssumption
<1>15. Profiles'
    <2> SUFFICES ASSUME NEW p \in Live' \ stale' PROVE person'[p].profile = Linked(voice', p)
        BY DEF Profiles, Linked
    <2>1. CASE p \in Recomputed(o)
        BY <1>9, <1>13, <2>1
    <2>2. CASE p \notin Recomputed(o)
        <3>1. /\ p \in People /\ p \in Live \ stale /\ person'[p].profile = person[p].profile
              /\ ~ (o.op = "merge" /\ p = o.from /\ p # o.to)
            BY <1>3, <1>10, <1>13, <2>2
        <3>2. ASSUME NEW s \in Speakers, voice'[s] = p PROVE voice[s] = p
            BY <1>11, <1>12, <1>14, <2>2, <3>1, <3>2 DEF LinkOf
        <3>3. ASSUME NEW s \in Speakers, voice[s] = p PROVE voice'[s] = p
            BY <1>3, <1>11, <1>12, <1>14, <2>2, <3>1, <3>3
        <3>4. person[p].profile = Linked(voice, p)
            BY <1>1, <3>1 DEF Profiles
        <3> QED
            BY <3>1, <3>2, <3>3, <3>4 DEF Linked
    <2> QED
        BY <2>1, <2>2
<1>16. Links'
    <2> SUFFICES ASSUME NEW s \in Speakers, voice'[s] # "nobody"
                 PROVE  voice'[s] \in Live' \cup stale'
        BY DEF Links
    <2> DEFINE p == voice'[s]
    <2>1. p \in People
        BY <1>7
    <2>2. CASE voice'[s] = voice[s]
        <3>1. p \in Live \cup stale
            BY <1>1, <2>2 DEF Links
        <3>2. ~ (o.op = "merge" /\ p = o.from /\ p # o.to)
            BY <1>11, <2>2
        <3>3. p \in Live => person'[p].state = "live" \/ p \in stale'
            BY <1>3, <1>9, <1>10, <1>13, <2>1, <3>2
        <3>4. p \in stale => p \in stale' \/ p \in Live
            BY <1>3
        <3> QED
            BY <1>13, <2>1, <3>1, <3>3, <3>4
    <2>3. CASE voice'[s] # voice[s]
        <3>1. p = o.to /\ o.op \in {"create", "link", "merge", "split"} /\ p \in Recomputed(o)
            BY <1>11, <1>12, <2>3 DEF LinkOf
        <3>2. o.op \in {"link", "merge"} => o.to \in Live
            BY <1>1, OperationIs
        <3>3. person'[p].state = "live"
            BY <1>9, <1>13, <2>1, <3>1, <3>2
        <3> QED
            BY <1>13, <2>1, <3>3
    <2> QED
        BY <2>2, <2>3
<1> QED
    BY <1>15, <1>16

\* Every step.
LEMMA VoiceInvNext == VoiceInv /\ [VoiceNext]_voiceVars => VoiceInv'
<1> SUFFICES ASSUME VoiceInv, [VoiceNext]_voiceVars PROVE VoiceInv'
    OBVIOUS
<1>1. CASE UNCHANGED voiceVars
    <2>1. /\ Operations' = Operations /\ Live' = Live /\ Busy' = Busy
          /\ \A o : Relinked(o)' = Relinked(o) /\ Recomputed(o)' = Recomputed(o)
          /\ \A v, p : Linked(v, p)' = Linked(v, p)
        BY <1>1 DEF voiceVars, Operations, Relinked, Recomputed, Live, Busy, Linked
    <2>2. \A o, p : SavedRow(o, p)' = SavedRow(o, p)
        BY <1>1, <2>1 DEF SavedRow, voiceVars
    <2>3. \A u \in VoiceUsers : /\ RequestOK(request[u]) => RequestOK(request[u])'
                                /\ RequestShape(request[u]) => RequestShape(request[u])'
        BY <1>1, <2>1, <2>2 DEF RequestOK, RequestShape, PersonShape, voiceVars
    <2>4. (Profiles' <=> Profiles) /\ (Links' <=> Links)
        BY <1>1, <2>1 DEF voiceVars, Profiles, Links, Linked
    <2>5. \A u \in Busy \ met : u \in VoiceUsers
        BY DEF Busy
    <2> QED
        BY <1>1, <2>1, <2>3, <2>4, <2>5 DEF voiceVars, VoiceInv, PersonShape
<1>2. ASSUME NEW u \in VoiceUsers, CommitVoice(u) PROVE VoiceInv'
    <2>1. Profiles' /\ Links'
        BY <1>2, MetCommitKeeps, AloneCommitKeeps
    <2> QED
        BY <1>2, <2>1, CommitShapes DEF VoiceInv, PersonShape
<1> QED
    BY <1>1, <1>2, ReadRowsKeeps, VoiceComputeKeeps, RefuseKeeps, DeleteKeeps DEF VoiceNext

\* Identities and links stay together, except the identities that somebody has left
\* behind or deleted or that were touched by requests that overlapped.
THEOREM ProfilesAreRight == VoiceSpec => []ProfilesFollowLinks
<1>1. VoiceInv => ProfilesFollowLinks
    BY DEF VoiceInv, ProfilesFollowLinks, Profiles, Links
<1> QED
    BY VoiceInvInit, VoiceInvNext, <1>1, PTL DEF VoiceSpec

-----------------------------------------------------------------------------
\* The scores of a diarization.
\* Segments have labels, slots a speaker or silence; what is left after folding
\* speaks long enough.
ScoringInv ==
    /\ reference \in [Slots -> Voices \union {Silence}]
    /\ label \in [Segments -> Nat]
    /\ stage \in {"start", "cluster", "assign", "fold", "done"}
    /\ stage = "done" => Small = {} \/ Small = Labels

\* No two elements have the same image.
OneToOne(S, f) == \A x, y \in S : f[x] = f[y] => x = y

\* The values of a function on a set.
Images(S, f) == {f[x] : x \in S}

\* A function is onto its images.
LEMMA OntoImages ==
    ASSUME NEW S, NEW T, NEW f \in [S -> T]
    PROVE  f \in Surjection(S, Images(S, f))
<1>1. f \in [S -> Images(S, f)] /\ \A y \in Images(S, f) : \E x \in S : f[x] = y
    BY DEF Images
<1> QED
    BY <1>1 DEF Surjection

\* A set has as many elements at least as its images under a function.
LEMMA ImagesAreFewer ==
    ASSUME NEW S, IsFiniteSet(S), NEW T, NEW f \in [S -> T]
    PROVE  /\ IsFiniteSet(Images(S, f)) /\ Cardinality(Images(S, f)) \in Nat /\ Cardinality(S) \in Nat
           /\ Cardinality(Images(S, f)) <= Cardinality(S)
<1>1. f \in Surjection(S, Images(S, f))
    BY OntoImages
<1>2. IsFiniteSet(Images(S, f)) /\ Cardinality(Images(S, f)) <= Cardinality(S)
    BY <1>1, FS_Surjection
<1> QED
    BY <1>2, FS_CardinalityType

\* And as many exactly if no two have the same image.
LEMMA DistinctImages ==
    ASSUME NEW S, IsFiniteSet(S), NEW T, NEW f \in [S -> T]
    PROVE  Cardinality(Images(S, f)) = Cardinality(S) <=> OneToOne(S, f)
<1>1. f \in Surjection(S, Images(S, f))
    BY OntoImages
<1>2. Cardinality(Images(S, f)) = Cardinality(S) <=> f \in Injection(S, Images(S, f))
    BY <1>1, FS_Surjection
<1>3. f \in Injection(S, Images(S, f)) <=> OneToOne(S, f)
    BY <1>1 DEF Surjection, Injection, IsInjective, OneToOne
<1> QED
    BY <1>2, <1>3

\* A part of a finite set with as many elements is all of it.
LEMMA Parts ==
    ASSUME NEW S, IsFiniteSet(S), NEW R \in SUBSET S
    PROVE  /\ IsFiniteSet(R) /\ Cardinality(R) \in Nat /\ Cardinality(S) \in Nat
           /\ Cardinality(R) <= Cardinality(S)
           /\ Cardinality(R) = Cardinality(S) => R = S
    BY FS_Subset, FS_CardinalityType

\* Slots, segments, speakers and labels are finitely many.
LEMMA ScoringIsFinite ==
    ASSUME ScoringInv
    PROVE  /\ Segments = {SegmentAt[t] : t \in Slots} \ {0} /\ Segments \subseteq Nat
           /\ \A P \in SUBSET Slots : IsFiniteSet(P) /\ Cardinality(P) \in Nat
           /\ IsFiniteSet(Heard) /\ IsFiniteSet(Labels)
           /\ \A t \in Slots : LabelAt(t) # 0 => LabelAt(t) \in Labels
<1>1. IsFiniteSet(Slots) /\ SegmentAt \in [Slots -> Nat]
    BY ScoringAssumption
<1>2. \A P \in SUBSET Slots : IsFiniteSet(P) /\ Cardinality(P) \in Nat
    BY <1>1, Parts
<1>3. IsFiniteSet(Images(Slots, SegmentAt)) /\ Segments \subseteq Images(Slots, SegmentAt)
    <2>1. Segments \subseteq Images(Slots, SegmentAt)
        BY DEF Segments, Images
    <2> QED
        BY <1>1, <2>1, ImagesAreFewer
<1>4. IsFiniteSet(Segments)
    BY <1>3, Parts
<1>5. IsFiniteSet(Labels)
    <2>1. IsFiniteSet(Images(Segments, label))
        BY <1>4, ImagesAreFewer DEF ScoringInv
    <2>2. Labels \subseteq Images(Segments, label)
        BY DEF Labels, Images
    <2> QED
        BY <2>1, <2>2, Parts
<1>6. IsFiniteSet(Heard)
    <2>1. IsFiniteSet(Images(Slots, reference))
        BY <1>1, ImagesAreFewer DEF ScoringInv
    <2>2. Heard \subseteq Images(Slots, reference)
        BY DEF Heard, Images
    <2> QED
        BY <2>1, <2>2, Parts
<1>7. \A t \in Slots : LabelAt(t) # 0 => LabelAt(t) \in Labels
    BY <1>1 DEF LabelAt, Labels, Segments
<1> QED
    BY <1>1, <1>2, <1>5, <1>6, <1>7 DEF Segments

\* A label shares time with a speaker when it is given where the speaker is heard.
LEMMA SharedTime ==
    ASSUME ScoringInv, NEW l, NEW v
    PROVE  /\ Shared(l, v) \in Nat
           /\ Shared(l, v) > 0 <=> \E t \in Slots : LabelAt(t) = l /\ reference[t] = v
<1> DEFINE both == {t \in Slots : LabelAt(t) = l /\ reference[t] = v}
<1>1. both \subseteq Slots
    OBVIOUS
<1>2. Shared(l, v) = Cardinality(both)
    BY DEF Shared
<1>3. both # {} <=> \E t \in Slots : LabelAt(t) = l /\ reference[t] = v
    OBVIOUS
<1> HIDE DEF both
<1>4. IsFiniteSet(both) /\ Cardinality(both) \in Nat
    BY <1>1, ScoringIsFinite
<1>5. Cardinality(both) = 0 <=> both = {}
    BY <1>4, FS_EmptySet
<1> QED
    BY <1>2, <1>3, <1>4, <1>5

\* The dominant speaker of a matched label is heard under it.
LEMMA DominantIsHeard ==
    ASSUME ScoringInv, NEW d \in Dominant
    PROVE  /\ d \in [Matched -> Heard] /\ Matched \subseteq Labels
           /\ IsFiniteSet(Matched) /\ IsFiniteSet(Heard)
           /\ \A l \in Matched : \E t \in Slots : LabelAt(t) = l /\ reference[t] = d[l]
<1>1. d \in [Matched -> Heard] /\ \A l \in Matched, v \in Heard : Shared(l, v) <= Shared(l, d[l])
    BY DEF Dominant
<1>2. Matched \subseteq Labels /\ IsFiniteSet(Matched)
    <2>1. Matched \subseteq Labels
        BY DEF Matched
    <2> QED
        BY <2>1, ScoringIsFinite, Parts
<1>3. ASSUME NEW l \in Matched
      PROVE  \E t \in Slots : LabelAt(t) = l /\ reference[t] = d[l]
    <2>1. PICK v \in Heard : Shared(l, v) > 0
        BY DEF Matched
    <2>2. Shared(l, d[l]) > 0
        BY <1>1, <2>1, SharedTime
    <2> QED
        BY <2>2, SharedTime
<1> QED
    BY <1>1, <1>2, <1>3, ScoringIsFinite

\* No speaker is counted as clustered and as merged away, and no time as correct
\* that is not matched.
LEMMA ScoresAreBounded ==
    ASSUME ScoringInv, NEW d \in Dominant
    PROVE  /\ Covered(d) \subseteq Heard
           /\ {Cardinality(Matched), Cardinality(Covered(d)), Cardinality(Heard)} \subseteq Nat
           /\ Cardinality(Covered(d)) <= Cardinality(Matched)
           /\ CorrectlyClustered(d) + OverMerged(d) <= Cardinality(Heard)
           /\ CorrectTime(d) <= MatchedTime
<1>1. d \in [Matched -> Heard] /\ IsFiniteSet(Matched) /\ IsFiniteSet(Heard)
    BY DominantIsHeard
<1>2. Covered(d) = Images(Matched, d)
    BY DEF Covered, Images
<1>3. Covered(d) \subseteq Heard
    BY <1>1 DEF Covered
<1>4. /\ Cardinality(Covered(d)) \in Nat /\ Cardinality(Matched) \in Nat
      /\ Cardinality(Covered(d)) <= Cardinality(Matched)
    BY <1>1, <1>2, ImagesAreFewer
<1>5. /\ Cardinality(Heard) \in Nat
      /\ Cardinality(Heard \ Covered(d)) = Cardinality(Heard) - Cardinality(Covered(d))
    <2>1. IsFiniteSet(Covered(d)) /\ Heard \cap Covered(d) = Covered(d)
        BY <1>1, <1>3, Parts
    <2> QED
        BY <1>1, <2>1, FS_Difference, FS_CardinalityType
<1>6. CorrectlyClustered(d) + OverMerged(d) <= Cardinality(Heard)
    BY <1>3, <1>4, <1>5, <1>1, Parts DEF CorrectlyClustered, OverMerged, OverSplit, NotNegative
<1>7. CorrectTime(d) <= MatchedTime
    <2> DEFINE right == {t \in Slots : LabelAt(t) \in Matched /\ reference[t] = d[LabelAt(t)]}
               matched == {t \in Slots : LabelAt(t) \in Matched /\ reference[t] # Silence}
    <2>1. right \subseteq matched /\ matched \subseteq Slots
        BY <1>1 DEF Heard
    <2>2. CorrectTime(d) = Cardinality(right) /\ MatchedTime = Cardinality(matched)
        BY DEF CorrectTime, MatchedTime
    <2> HIDE DEF right, matched
    <2>3. IsFiniteSet(matched)
        BY <2>1, ScoringIsFinite
    <2> QED
        BY <2>1, <2>2, <2>3, Parts
<1> QED
    BY <1>3, <1>4, <1>5, <1>6, <1>7

\* A perfect diarization has full marks: each label is the name of the speaker
\* who is dominant under it.
LEMMA PerfectScoresFull ==
    ASSUME ScoringInv, NEW d \in Dominant, Perfect
    PROVE  CorrectlyClustered(d) = Cardinality(Heard) /\ CorrectTime(d) = ReferenceTime
<1>1. PICK name \in [Heard -> Labels] :
         /\ \A v, w \in Heard : name[v] = name[w] => v = w
         /\ \A t \in Slots : reference[t] # Silence => LabelAt(t) = name[reference[t]]
    BY DEF Perfect
<1>2. /\ d \in [Matched -> Heard] /\ Matched \subseteq Labels /\ IsFiniteSet(Matched)
      /\ \A l \in Matched : \E t \in Slots : LabelAt(t) = l /\ reference[t] = d[l]
    BY DominantIsHeard
<1>3. Silence \notin Heard
    BY DEF Heard
<1>4. \A l \in Matched : name[d[l]] = l
    <2> TAKE l \in Matched
    <2>1. PICK t \in Slots : LabelAt(t) = l /\ reference[t] = d[l]
        BY <1>2
    <2>2. d[l] \in Heard /\ reference[t] # Silence
        BY <1>2, <1>3, <2>1
    <2> QED
        BY <1>1, <2>1, <2>2
<1>5. \A v \in Heard : name[v] \in Matched /\ d[name[v]] = v
    <2> TAKE v \in Heard
    <2>1. PICK t \in Slots : reference[t] = v
        BY DEF Heard
    <2>2. LabelAt(t) = name[v] /\ name[v] \in Labels
        BY <1>1, <1>3, <2>1
    <2>3. Shared(name[v], v) > 0
        BY <2>1, <2>2, SharedTime
    <2>4. name[v] \in Matched
        BY <2>2, <2>3 DEF Matched
    <2>5. name[d[name[v]]] = name[v] /\ d[name[v]] \in Heard
        BY <1>2, <1>4, <2>4
    <2> QED
        BY <1>1, <2>4, <2>5
<1>6. CorrectlyClustered(d) = Cardinality(Heard)
    <2>1. Covered(d) = {d[l] : l \in Matched} /\ Covered(d) = Heard
        BY <1>2, <1>5 DEF Covered
    <2>2. OneToOne(Matched, d)
        BY <1>4 DEF OneToOne
    <2>4. /\ Cardinality(Matched) \in Nat
          /\ Cardinality(Covered(d)) = Cardinality(Matched) <=> OneToOne(Matched, d)
        <3>1. Covered(d) = Images(Matched, d)
            BY DEF Covered, Images
        <3> QED
            BY <1>2, <3>1, ImagesAreFewer, DistinctImages
    <2>3. Cardinality(Covered(d)) = Cardinality(Matched) /\ Cardinality(Matched) \in Nat
        BY <2>2, <2>4
    <2> QED
        BY <2>1, <2>3 DEF CorrectlyClustered, OverSplit, NotNegative
<1>7. CorrectTime(d) = ReferenceTime
    <2>1. ASSUME NEW t \in Slots
          PROVE  (LabelAt(t) \in Matched /\ reference[t] = d[LabelAt(t)]) <=> reference[t] # Silence
        <3>1. CASE reference[t] = Silence
            BY <1>2, <1>3, <3>1
        <3>2. CASE reference[t] # Silence
            <4>1. reference[t] \in Heard /\ LabelAt(t) = name[reference[t]]
                BY <1>1, <3>2 DEF Heard
            <4> QED
                BY <1>5, <3>2, <4>1
        <3> QED
            BY <3>1, <3>2
    <2>2. {t \in Slots : LabelAt(t) \in Matched /\ reference[t] = d[LabelAt(t)]}
             = {t \in Slots : reference[t] # Silence}
        BY <2>1
    <2> QED
        BY <2>2 DEF CorrectTime, ReferenceTime
<1> QED
    BY <1>6, <1>7

\* Full marks mean a perfect diarization: the name of a speaker is the one label
\* the speaker is dominant under.
LEMMA FullMarksArePerfect ==
    ASSUME ScoringInv, NEW d \in Dominant,
           CorrectlyClustered(d) = Cardinality(Heard), CorrectTime(d) = ReferenceTime
    PROVE  Perfect
<1>1. /\ d \in [Matched -> Heard] /\ Matched \subseteq Labels /\ IsFiniteSet(Matched) /\ IsFiniteSet(Heard)
    BY DominantIsHeard
<1>2. Silence \notin Heard
    BY DEF Heard
<1>3. ASSUME NEW t \in Slots, reference[t] # Silence
      PROVE  LabelAt(t) \in Matched /\ reference[t] = d[LabelAt(t)]
    <2> DEFINE right == {u \in Slots : LabelAt(u) \in Matched /\ reference[u] = d[LabelAt(u)]}
               heard == {u \in Slots : reference[u] # Silence}
    <2>1. right \subseteq heard /\ heard \subseteq Slots /\ t \in heard
        BY <1>1, <1>2, <1>3
    <2>2. Cardinality(right) = Cardinality(heard)
        BY DEF CorrectTime, ReferenceTime
    <2>3. t \in right => LabelAt(t) \in Matched /\ reference[t] = d[LabelAt(t)]
        OBVIOUS
    <2> HIDE DEF right, heard
    <2>4. right = heard
        BY <2>1, <2>2, ScoringIsFinite, Parts
    <2> QED
        BY <2>1, <2>3, <2>4
<1>4. \A v \in Heard : \E l \in Matched : d[l] = v
    <2> TAKE v \in Heard
    <2>1. PICK t \in Slots : reference[t] = v
        BY DEF Heard
    <2> QED
        BY <1>2, <1>3, <2>1
<1>5. Covered(d) = {d[l] : l \in Matched} /\ Covered(d) = Heard
    BY <1>1, <1>4 DEF Covered
<1>6. /\ Cardinality(Matched) \in Nat /\ Cardinality(Heard) \in Nat
      /\ Cardinality(Covered(d)) = Cardinality(Matched) => OneToOne(Matched, d)
      /\ Cardinality(Covered(d)) <= Cardinality(Matched)
    <2>1. Covered(d) = Images(Matched, d)
        BY DEF Covered, Images
    <2>2. /\ Cardinality(Matched) \in Nat
          /\ Cardinality(Covered(d)) = Cardinality(Matched) <=> OneToOne(Matched, d)
          /\ Cardinality(Covered(d)) <= Cardinality(Matched)
        BY <1>1, <2>1, ImagesAreFewer, DistinctImages
    <2> QED
        BY <1>1, <2>2, FS_CardinalityType
<1>7. \A k, l \in Matched : d[k] = d[l] => k = l
    <2>1. CASE Heard = {}
        BY <1>1, <2>1
    <2>2. CASE Heard # {}
        <3>1. Cardinality(Heard) # 0
            BY <1>1, <2>2, FS_EmptySet
        <3>2. Cardinality(Covered(d)) = Cardinality(Matched)
            BY <1>5, <1>6, <3>1 DEF CorrectlyClustered, OverSplit, NotNegative
        <3> QED
            BY <1>6, <3>2 DEF OneToOne
    <2> QED
        BY <2>1, <2>2
<1> DEFINE name == [v \in Heard |-> CHOOSE l \in Matched : d[l] = v]
<1>8. \A v \in Heard : name[v] \in Matched /\ d[name[v]] = v
    BY <1>4
<1>9. name \in [Heard -> Labels]
    BY <1>1, <1>8
<1> HIDE DEF name
<1>10. \A v, w \in Heard : name[v] = name[w] => v = w
    BY <1>8
<1>11. ASSUME NEW t \in Slots, reference[t] # Silence
       PROVE  LabelAt(t) = name[reference[t]]
    <2>1. reference[t] \in Heard
        BY <1>11 DEF Heard
    <2> QED
        BY <1>3, <1>7, <1>8, <1>11, <2>1
<1> QED
    BY <1>9, <1>10, <1>11 DEF Perfect

\* Nothing is labelled.
LEMMA ScoringInvInit == ScoringInit => ScoringInv
    BY ScoringAssumption DEF ScoringInit, ScoringInv

\* Folding only gives the labels that survive more time.
LEMMA ScoringInvMerge ==
    ASSUME ScoringInv, MergeSmallSpeakers
    PROVE  ScoringInv'
<1>1. stage' = "done" /\ reference' = reference
    BY DEF MergeSmallSpeakers
<1>2. CASE Labels = Small \/ Small = {}
    <2>1. label' = label
        BY <1>2 DEF MergeSmallSpeakers
    <2>2. Labels' = Labels /\ Small' = Small
        BY <2>1 DEF Labels, Small, SpeechOf, LabelAt
    <2> QED
        BY <1>1, <1>2, <2>1, <2>2 DEF ScoringInv
<1>3. CASE ~ (Labels = Small \/ Small = {})
    <2>1. PICK remap \in [Small -> Survivors] :
             label' = [s \in Segments |-> IF label[s] \in Small THEN remap[label[s]] ELSE label[s]]
        BY <1>3 DEF MergeSmallSpeakers
    <2>2. label \in [Segments -> Nat]
        BY DEF ScoringInv
    <2>3. Survivors \subseteq Labels /\ Labels \subseteq Nat \ {0} /\ Survivors \cap Small = {}
        BY <2>2 DEF Survivors, Labels
    <2>4. \A s \in Segments :
             /\ label'[s] \in Nat
             /\ label[s] \in Survivors => label'[s] = label[s]
             /\ label[s] # 0 => label'[s] \in Survivors
             /\ label[s] = 0 => label'[s] = 0
        <3> TAKE s \in Segments
        <3>1. label'[s] = IF label[s] \in Small THEN remap[label[s]] ELSE label[s]
            BY <2>1
        <3>2. label[s] # 0 => label[s] \in Labels
            BY DEF Labels
        <3>3. label[s] \in Small => remap[label[s]] \in Survivors
            BY <2>1
        <3>4. /\ label[s] \in Nat
              /\ label[s] \in Small => label[s] \in Labels
              /\ label[s] \in Labels => label[s] \in Small \/ label[s] \in Survivors
            BY <2>2 DEF Survivors, Small
        <3>5. CASE label[s] \in Small
            BY <2>3, <3>1, <3>3, <3>4, <3>5
        <3>6. CASE label[s] \notin Small
            BY <2>3, <3>1, <3>2, <3>4, <3>6
        <3> QED
            BY <3>5, <3>6
    <2>5. label' \in [Segments -> Nat]
        BY <2>1, <2>4
    <2>6. Labels' \subseteq Survivors
        BY <2>4 DEF Labels
    <2>7. \A l \in Survivors : SpeechOf(l)' \in Nat /\ SpeechOf(l)' >= MinSpeech
        <3> TAKE l \in Survivors
        <3> DEFINE now == {t \in Slots : LabelAt(t) = l}
                   then == {t \in Slots : LabelAt(t)' = l}
        <3>1. now \subseteq then /\ then \subseteq Slots
            <4> SUFFICES ASSUME NEW t \in Slots, LabelAt(t) = l PROVE LabelAt(t)' = l
                OBVIOUS
            <4>1. SegmentAt[t] # 0 /\ label[SegmentAt[t]] = l /\ SegmentAt[t] \in Segments
                BY <2>3 DEF LabelAt, Segments
            <4> QED
                BY <2>4, <4>1 DEF LabelAt
        <3>2. SpeechOf(l) = Cardinality(now) /\ SpeechOf(l)' = Cardinality(then)
            BY DEF SpeechOf
        <3> HIDE DEF now, then
        <3>3. IsFiniteSet(then)
            BY <3>1, ScoringIsFinite
        <3>4. /\ Cardinality(now) \in Nat /\ Cardinality(then) \in Nat
              /\ Cardinality(now) <= Cardinality(then)
            BY <3>1, <3>3, Parts
        <3>5. ~ (SpeechOf(l) < MinSpeech) /\ MinSpeech \in Nat
            BY ScoringAssumption DEF Survivors, Small
        <3> QED
            BY <3>2, <3>4, <3>5
    <2>8. Small' = {}
        BY <2>6, <2>7, ScoringAssumption DEF Small
    <2> QED
        BY <1>1, <2>5, <2>8 DEF ScoringInv
<1> QED
    BY <1>2, <1>3

\* Every step keeps it.
LEMMA ScoringInvNext == ScoringInv /\ [ScoringNext]_scoringVars => ScoringInv'
<1> SUFFICES ASSUME ScoringInv, [ScoringNext]_scoringVars PROVE ScoringInv'
    OBVIOUS
<1>1. CASE ReadReference
    BY <1>1 DEF ReadReference, ScoringInv
<1>2. CASE ClusterVectors
    BY <1>2 DEF ClusterVectors, ScoringInv
<1>3. CASE AssignNearest
    <2>1. PICK nearest \in [Segments \ Clusterable -> Labels] :
             label' = [s \in Segments |-> IF s \in Clusterable THEN label[s] ELSE nearest[s]]
        BY <1>3 DEF AssignNearest
    <2>2. Labels \subseteq Nat
        BY DEF ScoringInv, Labels
    <2>3. label' \in [Segments -> Nat]
        BY <2>1, <2>2 DEF ScoringInv
    <2> QED
        BY <1>3, <2>3 DEF AssignNearest, ScoringInv
<1>4. CASE MergeSmallSpeakers
    BY <1>4, ScoringInvMerge
<1>5. CASE UNCHANGED scoringVars
    BY <1>5 DEF scoringVars, ScoringInv, Small, Labels, SpeechOf, LabelAt
<1> QED
    BY <1>1, <1>2, <1>3, <1>4, <1>5 DEF ScoringNext

\* The scores of any evaluation mean what they say (segment_metrics,
\* merge_small_speakers).
THEOREM ScoresAreTrue == ScoringSpec => []ScoresMeanWhatTheySay
<1>1. ScoringInv => ScoresMeanWhatTheySay
    <2> SUFFICES ASSUME ScoringInv, stage = "done"
                 PROVE  /\ \A d \in Dominant :
                            /\ Perfect <=> (CorrectlyClustered(d) = Cardinality(Heard) /\ CorrectTime(d) = ReferenceTime)
                            /\ CorrectlyClustered(d) + OverMerged(d) <= Cardinality(Heard)
                            /\ CorrectTime(d) <= MatchedTime
                        /\ Small = {} \/ Small = Labels
        BY DEF ScoresMeanWhatTheySay
    <2>1. \A d \in Dominant :
             Perfect <=> (CorrectlyClustered(d) = Cardinality(Heard) /\ CorrectTime(d) = ReferenceTime)
        BY PerfectScoresFull, FullMarksArePerfect
    <2>2. \A d \in Dominant :
             /\ CorrectlyClustered(d) + OverMerged(d) <= Cardinality(Heard)
             /\ CorrectTime(d) <= MatchedTime
        BY ScoresAreBounded
    <2>3. Small = {} \/ Small = Labels
        BY DEF ScoringInv
    <2> QED
        BY <2>1, <2>2, <2>3
<1> QED
    BY <1>1, ScoringInvInit, ScoringInvNext, PTL DEF ScoringSpec

-----------------------------------------------------------------------------
\* The schema.
\* The name of each file.
LEMMA FileNames ==
  /\ Accounts1.name = "accounts_1"
  /\ Jobs1.name = "jobs_1"
  /\ Jobs2.name = "jobs_2"
  /\ Agents1.name = "agents_1"
  /\ Agents2.name = "agents_2"
  /\ Agents3.name = "agents_3"
  /\ Agents4.name = "agents_4"
  /\ Meetings1.name = "meetings_1"
  /\ Meetings2.name = "meetings_2"
  /\ Meetings3.name = "meetings_3"
  /\ Meetings4.name = "meetings_4"
  /\ Meetings5.name = "meetings_5"
  /\ Meetings6.name = "meetings_6"
  /\ Meetings7.name = "meetings_7"
  /\ Meetings8.name = "meetings_8"
  /\ Meetings9.name = "meetings_9"
  /\ Meetings10.name = "meetings_10"
  /\ Meetings11.name = "meetings_11"
  /\ Meetings12.name = "meetings_12"
  /\ Meetings13.name = "meetings_13"
  /\ Workspace1.name = "workspace_1"
  /\ Workspace2.name = "workspace_2"
  /\ Workspace3.name = "workspace_3"
  /\ Workspace4.name = "workspace_4"
  /\ Knowledge1.name = "knowledge_1"
  /\ Knowledge2.name = "knowledge_2"
  /\ Knowledge3.name = "knowledge_3"
  /\ Knowledge4.name = "knowledge_4"
  /\ Knowledge5.name = "knowledge_5"
  /\ Knowledge6.name = "knowledge_6"
  /\ Benchmarks1.name = "benchmarks_1"
  BY DEF File,
         Accounts1, Jobs1, Jobs2, Agents1, Agents2, Agents3, Agents4, Meetings1,
         Meetings2, Meetings3, Meetings4, Meetings5, Meetings6, Meetings7, Meetings8,
         Meetings9, Meetings10, Meetings11, Meetings12, Meetings13, Workspace1,
         Workspace2, Workspace3, Workspace4, Knowledge1, Knowledge2, Knowledge3,
         Knowledge4, Knowledge5, Knowledge6, Benchmarks1

\* What each file depends on.
LEMMA FileDependencies ==
  /\ Accounts1.after = {}
  /\ Jobs1.after = {"accounts_1"}
  /\ Jobs2.after = {"jobs_1", "accounts_1"}
  /\ Agents1.after = {"accounts_1"}
  /\ Agents2.after = {"agents_1"}
  /\ Agents3.after = {"agents_2", "accounts_1"}
  /\ Agents4.after = {"agents_3", "accounts_1"}
  /\ Meetings1.after = {"jobs_1", "accounts_1"}
  /\ Meetings2.after = {"meetings_1", "accounts_1"}
  /\ Meetings3.after = {"meetings_2", "accounts_1"}
  /\ Meetings4.after = {"meetings_3", "accounts_1"}
  /\ Meetings5.after = {"meetings_4"}
  /\ Meetings6.after = {"meetings_5", "workspace_1"}
  /\ Meetings7.after = {"meetings_6"}
  /\ Meetings8.after = {"meetings_7"}
  /\ Meetings9.after = {"meetings_8", "accounts_1"}
  /\ Meetings10.after = {"meetings_9", "accounts_1"}
  /\ Meetings11.after = {"meetings_10", "accounts_1"}
  /\ Meetings12.after = {"meetings_11", "accounts_1"}
  /\ Meetings13.after = {"meetings_12", "workspace_4"}
  /\ Workspace1.after = {"meetings_5", "accounts_1"}
  /\ Workspace2.after = {"workspace_1", "meetings_6", "accounts_1"}
  /\ Workspace3.after = {"workspace_2", "meetings_6", "accounts_1"}
  /\ Workspace4.after = {"workspace_3", "accounts_1"}
  /\ Knowledge1.after = {"meetings_6", "workspace_3", "accounts_1"}
  /\ Knowledge2.after = {"knowledge_1", "meetings_6", "workspace_3", "accounts_1"}
  /\ Knowledge3.after = {"knowledge_2", "meetings_6", "workspace_3", "accounts_1"}
  /\ Knowledge4.after = {"knowledge_3", "workspace_3", "accounts_1"}
  /\ Knowledge5.after = {"knowledge_4"}
  /\ Knowledge6.after = {"knowledge_5"}
  /\ Benchmarks1.after = {"meetings_12", "accounts_1"}
  BY DEF File,
         Accounts1, Jobs1, Jobs2, Agents1, Agents2, Agents3, Agents4, Meetings1,
         Meetings2, Meetings3, Meetings4, Meetings5, Meetings6, Meetings7, Meetings8,
         Meetings9, Meetings10, Meetings11, Meetings12, Meetings13, Workspace1,
         Workspace2, Workspace3, Workspace4, Knowledge1, Knowledge2, Knowledge3,
         Knowledge4, Knowledge5, Knowledge6, Benchmarks1

\* The tables each file creates.
LEMMA FileTablesCreated ==
  /\ Accounts1.creates = {"User", "PasswordResetToken"}
  /\ Jobs1.creates = {"BackgroundJob"}
  /\ Jobs2.creates = {"JobLog"}
  /\ Agents1.creates = {"AgentRun", "AgentRunStep"}
  /\ Agents2.creates = {}
  /\ Agents3.creates = {"PlannerRun", "PlannerStep"}
  /\ Agents4.creates = {"CollaborationRun", "CollaborationStep"}
  /\ Meetings1.creates = {"Meeting", "MeetingEvent", "MediaMetadata", "ChatMessage",
                          "AIOutput", "MeetingFile", "MeetingJob", "ProcessingLog",
                          "TranscriptSegment", "UploadSession"}
  /\ Meetings2.creates = {"Transcript"}
  /\ Meetings3.creates = {"AIAnalysis"}
  /\ Meetings4.creates = {"MessageCitation", "ChatConversation"}
  /\ Meetings5.creates = {}
  /\ Meetings6.creates = {}
  /\ Meetings7.creates = {}
  /\ Meetings8.creates = {}
  /\ Meetings9.creates = {"LiveMeetingSession", "LiveTranscriptSegment"}
  /\ Meetings10.creates = {"MediaImportSession"}
  /\ Meetings11.creates = {"Speaker"}
  /\ Meetings12.creates = {"SpeakerQualitySignal", "SpeakerEmbedding"}
  /\ Meetings13.creates = {}
  /\ Workspace1.creates = {"Project", "Note", "Milestone", "Notification", "Issue",
                           "FollowUp", "Decision", "Risk", "Task", "Report"}
  /\ Workspace2.creates = {"AISuggestion", "Workspace"}
  /\ Workspace3.creates = {"TaskAttachment", "TaskComment", "ActivityLog"}
  /\ Workspace4.creates = {"VoicePerson", "VoicePersonEvent"}
  /\ Knowledge1.creates = {"KnowledgeItem"}
  /\ Knowledge2.creates = {"EmbeddingVersion", "KnowledgeEvent", "KnowledgeRetrieval",
                           "KnowledgeVersion"}
  /\ Knowledge3.creates = {"KnowledgeConsensus", "KnowledgeConflict",
                           "KnowledgeConsensusRevision"}
  /\ Knowledge4.creates = {"ExecutiveAlert", "ExecutiveExplanation",
                           "ExecutiveMetricSnapshot", "ExecutivePrediction",
                           "ExecutiveRecommendation", "ExecutiveTrendPoint",
                           "OrganizationSnapshot", "ProjectSnapshot"}
  /\ Knowledge5.creates = {}
  /\ Knowledge6.creates = {}
  /\ Benchmarks1.creates = {"BenchmarkDataset", "BenchmarkConfig", "BenchmarkRecording",
                            "BenchmarkRun", "BenchmarkResult"}
  <1>1. Meetings1.creates = {"Meeting", "MeetingEvent", "MediaMetadata", "ChatMessage",
                            "AIOutput", "MeetingFile", "MeetingJob", "ProcessingLog",
                            "TranscriptSegment", "UploadSession"}
    BY DEF File, Meetings1, ChatTables, FileTables, RunTables, UploadTables
  <1>2. Workspace1.creates = {"Project", "Note", "Milestone", "Notification", "Issue",
                             "FollowUp", "Decision", "Risk", "Task", "Report"}
    BY DEF File, Workspace1, ActionTables, OutcomeTables, TaskTables, ReportTables
  <1>3. Knowledge4.creates = {"ExecutiveAlert", "ExecutiveExplanation",
                             "ExecutiveMetricSnapshot", "ExecutivePrediction",
                             "ExecutiveRecommendation", "ExecutiveTrendPoint",
                             "OrganizationSnapshot", "ProjectSnapshot"}
    BY DEF File, Knowledge4, PointTables, AdviceTables, SnapshotTables
  <1> QED
    BY <1>1, <1>2, <1>3 DEF File,
         Accounts1, Jobs1, Jobs2, Agents1, Agents2, Agents3, Agents4, Meetings2,
         Meetings3, Meetings4, Meetings5, Meetings6, Meetings7, Meetings8, Meetings9,
         Meetings10, Meetings11, Meetings12, Meetings13, Workspace2, Workspace3,
         Workspace4, Knowledge1, Knowledge2, Knowledge3, Knowledge5, Knowledge6,
         Benchmarks1

\* No two files have one name.
LEMMA NamesDiffer == \A m, n \in Files : m.name = n.name => m = n
  BY SMTT(60), FileNames DEF Files

\* No table is created by two files.
LEMMA CreatedOnce == \A m, n \in Files : m # n => m.creates \intersect n.creates = {}
  BY SMTT(60), FileTablesCreated DEF Files

\* The keys that a file adds to tables of another one.
Added == {
    <<"agents_3", "AgentRun", "PlannerRun">>,
    <<"meetings_4", "ChatMessage", "ChatConversation">>,
    <<"meetings_6", "Meeting", "Project">>,
    <<"meetings_11", "TranscriptSegment", "Speaker">>,
    <<"meetings_13", "Speaker", "VoicePerson">>,
    <<"workspace_2", "Decision", "AISuggestion">>,
    <<"workspace_2", "FollowUp", "AISuggestion">>,
    <<"workspace_2", "Issue", "AISuggestion">>,
    <<"workspace_2", "Project", "Workspace">>,
    <<"workspace_2", "Risk", "AISuggestion">>,
    <<"workspace_2", "Task", "AISuggestion">>,
    <<"knowledge_2", "KnowledgeItem", "EmbeddingVersion">>,
    <<"knowledge_2", "KnowledgeItem", "Workspace">>}

\* A key is added by the file that creates its table, or is one of those.
LEMMA KeysAdded ==
    ASSUME NEW m \in Files, NEW k \in m.keys
    PROVE  /\ k = <<k[1], k[2]>>
           /\ k[1] \in m.creates => \A name : <<name, k[1], k[2]>> \notin Added
           /\ k[1] \notin m.creates => <<m.name, k[1], k[2]>> \in Added
  <1>1. CASE m = Accounts1
    BY <1>1, FileNames, FileTablesCreated DEF File, Audited, Added, Accounts1
  <1>2. CASE m = Jobs1
    BY <1>2, FileNames, FileTablesCreated DEF File, Audited, Added, Jobs1
  <1>3. CASE m = Jobs2
    BY <1>3, FileNames, FileTablesCreated DEF File, Audited, Added, Jobs2
  <1>4. CASE m = Agents1
    BY <1>4, FileNames, FileTablesCreated DEF File, Audited, Added, Agents1
  <1>5. CASE m = Agents2
    BY <1>5, FileNames, FileTablesCreated DEF File, Audited, Added, Agents2
  <1>6. CASE m = Agents3
    BY <1>6, FileNames, FileTablesCreated DEF File, Audited, Added, Agents3
  <1>7. CASE m = Agents4
    BY <1>7, FileNames, FileTablesCreated DEF File, Audited, Added, Agents4
  <1>8. CASE m = Meetings1
    BY <1>8, FileNames, FileTablesCreated
       DEF File, Audited, Added, Meetings1, ChatTables, FileTables, RunTables,
           UploadTables
  <1>9. CASE m = Meetings2
    BY <1>9, FileNames, FileTablesCreated DEF File, Audited, Added, Meetings2
  <1>10. CASE m = Meetings3
    BY <1>10, FileNames, FileTablesCreated DEF File, Audited, Added, Meetings3
  <1>11. CASE m = Meetings4
    BY <1>11, FileNames, FileTablesCreated DEF File, Audited, Added, Meetings4
  <1>12. CASE m = Meetings5
    BY <1>12, FileNames, FileTablesCreated DEF File, Audited, Added, Meetings5
  <1>13. CASE m = Meetings6
    BY <1>13, FileNames, FileTablesCreated DEF File, Audited, Added, Meetings6
  <1>14. CASE m = Meetings7
    BY <1>14, FileNames, FileTablesCreated DEF File, Audited, Added, Meetings7
  <1>15. CASE m = Meetings8
    BY <1>15, FileNames, FileTablesCreated DEF File, Audited, Added, Meetings8
  <1>16. CASE m = Meetings9
    BY <1>16, FileNames, FileTablesCreated DEF File, Audited, Added, Meetings9
  <1>17. CASE m = Meetings10
    BY <1>17, FileNames, FileTablesCreated DEF File, Audited, Added, Meetings10
  <1>18. CASE m = Meetings11
    BY <1>18, FileNames, FileTablesCreated DEF File, Audited, Added, Meetings11
  <1>19. CASE m = Meetings12
    BY <1>19, FileNames, FileTablesCreated DEF File, Audited, Added, Meetings12
  <1>20. CASE m = Meetings13
    BY <1>20, FileNames, FileTablesCreated DEF File, Audited, Added, Meetings13
  <1>21. CASE m = Workspace1
    BY <1>21, FileNames, FileTablesCreated
       DEF File, Audited, Added, Workspace1, OfProject, ActionTables, OutcomeTables,
           TaskTables, ReportTables
  <1>22. CASE m = Workspace2
    BY <1>22, FileNames, FileTablesCreated DEF File, Audited, Added, Workspace2, Sourced
  <1>23. CASE m = Workspace3
    BY <1>23, FileNames, FileTablesCreated DEF File, Audited, Added, Workspace3
  <1>24. CASE m = Workspace4
    BY <1>24, FileNames, FileTablesCreated DEF File, Audited, Added, Workspace4
  <1>25. CASE m = Knowledge1
    BY <1>25, FileNames, FileTablesCreated DEF File, Audited, Added, Knowledge1, OfProject
  <1>26. CASE m = Knowledge2
    BY <1>26, FileNames, FileTablesCreated DEF File, Audited, Added, Knowledge2
  <1>27. CASE m = Knowledge3
    BY <1>27, FileNames, FileTablesCreated DEF File, Audited, Added, Knowledge3
  <1>28. CASE m = Knowledge4
    BY <1>28, FileNames, FileTablesCreated
       DEF File, Audited, Added, Knowledge4, PointTables, AdviceTables, SnapshotTables
  <1>29. CASE m = Knowledge5
    BY <1>29, FileNames, FileTablesCreated DEF File, Audited, Added, Knowledge5
  <1>30. CASE m = Knowledge6
    BY <1>30, FileNames, FileTablesCreated DEF File, Audited, Added, Knowledge6
  <1>31. CASE m = Benchmarks1
    BY <1>31, FileNames, FileTablesCreated DEF File, Audited, Added, Benchmarks1
  <1> QED
    BY <1>1, <1>2, <1>3, <1>4, <1>5, <1>6, <1>7, <1>8, <1>9, <1>10, <1>11, <1>12, <1>13,
       <1>14, <1>15, <1>16, <1>17, <1>18, <1>19, <1>20, <1>21, <1>22, <1>23, <1>24,
       <1>25, <1>26, <1>27, <1>28, <1>29, <1>30, <1>31 DEF Files

\* No key is added by two files.
LEMMA KeysOnce == \A m, n \in Files : m # n => m.keys \intersect n.keys = {}
  <1> SUFFICES ASSUME NEW m \in Files, NEW n \in Files, NEW k, k \in m.keys, k \in n.keys
               PROVE  m = n
    OBVIOUS
  <1>1. CASE k[1] \in m.creates /\ k[1] \in n.creates
    BY <1>1, CreatedOnce
  <1>2. CASE k[1] \notin m.creates \/ k[1] \notin n.creates
    <2>1. k[1] \notin m.creates /\ k[1] \notin n.creates
      BY <1>2, KeysAdded
    <2>2. <<m.name, k[1], k[2]>> \in Added /\ <<n.name, k[1], k[2]>> \in Added
      BY <2>1, KeysAdded
    <2>3. m.name = n.name
      BY <2>2 DEF Added
    <2> QED
      BY <2>3, NamesDiffer
  <1> QED
    BY <1>1, <1>2

\* The tables of a set of migrations, given by their names.
TablesOf(names) == UNION {m.creates : m \in {n \in Files : n.name \in names}}
\* Their keys.
KeysOf(names) == UNION {m.keys : m \in {n \in Files : n.name \in names}}

\* A set of migrations that holds the dependencies of each of its own.
Closed(names) == \A m \in Files : m.name \in names => m.after \subseteq names

\* The tables of a migration that has run are there.
LEMMA TablesThere ==
    ASSUME NEW names, Closed(names)
    PROVE  \A m \in Files : m.name \in names => m.creates \subseteq TablesOf(names)
  BY DEF TablesOf

\* What a file is built on: the files of its application and those they name.
LEMMA Behind ==
    ASSUME NEW names, Closed(names)
    PROVE  /\ "jobs_1" \in names => "accounts_1" \in names
           /\ "jobs_2" \in names => "jobs_1" \in names /\ "accounts_1" \in names
           /\ "agents_1" \in names => "accounts_1" \in names
           /\ "agents_2" \in names => "agents_1" \in names
           /\ "agents_3" \in names => "agents_2" \in names /\ "accounts_1" \in names
           /\ "agents_4" \in names => "agents_3" \in names /\ "accounts_1" \in names
           /\ "meetings_1" \in names => "jobs_1" \in names /\ "accounts_1" \in names
           /\ "meetings_2" \in names => "meetings_1" \in names /\ "accounts_1" \in names
           /\ "meetings_3" \in names => "meetings_2" \in names /\ "accounts_1" \in names
           /\ "meetings_4" \in names => "meetings_3" \in names /\ "accounts_1" \in names
           /\ "meetings_5" \in names => "meetings_4" \in names
           /\ "meetings_6" \in names => "meetings_5" \in names /\ "workspace_1" \in names
           /\ "meetings_7" \in names => "meetings_6" \in names
           /\ "meetings_8" \in names => "meetings_7" \in names
           /\ "meetings_9" \in names => "meetings_8" \in names /\ "accounts_1" \in names
           /\ "meetings_10" \in names => "meetings_9" \in names /\ "accounts_1" \in names
           /\ "meetings_11" \in names => "meetings_10" \in names /\ "accounts_1" \in names
           /\ "meetings_12" \in names => "meetings_11" \in names /\ "accounts_1" \in names
           /\ "meetings_13" \in names => {"meetings_12", "workspace_4"} \subseteq names
           /\ "workspace_1" \in names => "meetings_5" \in names /\ "accounts_1" \in names
           /\ "workspace_2" \in names => {"workspace_1", "meetings_6", "accounts_1"} \subseteq names
           /\ "workspace_3" \in names => {"workspace_2", "meetings_6", "accounts_1"} \subseteq names
           /\ "workspace_4" \in names => "workspace_3" \in names /\ "accounts_1" \in names
           /\ "knowledge_1" \in names => {"meetings_6", "workspace_3", "accounts_1"} \subseteq names
           /\ "knowledge_2" \in names => {"knowledge_1", "meetings_6", "workspace_3", "accounts_1"} \subseteq names
           /\ "knowledge_3" \in names => {"knowledge_2", "meetings_6", "workspace_3", "accounts_1"} \subseteq names
           /\ "knowledge_4" \in names => {"knowledge_3", "workspace_3", "accounts_1"} \subseteq names
           /\ "knowledge_5" \in names => "knowledge_4" \in names
           /\ "knowledge_6" \in names => "knowledge_5" \in names
           /\ "benchmarks_1" \in names => {"meetings_12", "accounts_1"} \subseteq names
  BY SMTT(60), FileNames, FileDependencies DEF Closed, Files

\* A migration whose dependencies have run refers to tables that exist.
LEMMA KeysHaveTables ==
    ASSUME NEW names, Closed(names),
           NEW m \in Files, m.after \subseteq names, NEW k \in m.keys
    PROVE  {k[1], k[2]} \subseteq TablesOf(names) \union m.creates
  <1>0. \A n \in Files : n.name \in names => n.creates \subseteq TablesOf(names)
    BY TablesThere
  <1>t. /\ "accounts_1" \in names => {"User"} \subseteq TablesOf(names)
        /\ "jobs_1" \in names => {"BackgroundJob"} \subseteq TablesOf(names)
        /\ "agents_1" \in names => {"AgentRun"} \subseteq TablesOf(names)
        /\ "agents_3" \in names => {"PlannerRun"} \subseteq TablesOf(names)
        /\ "meetings_1" \in names =>
             {"ChatMessage", "Meeting", "MeetingFile", "TranscriptSegment"} \subseteq TablesOf(names)
        /\ "meetings_10" \in names => {"MediaImportSession"} \subseteq TablesOf(names)
        /\ "meetings_11" \in names => {"Speaker"} \subseteq TablesOf(names)
        /\ "workspace_1" \in names =>
             {"Decision", "FollowUp", "Issue", "Project", "Risk", "Task"} \subseteq TablesOf(names)
        /\ "workspace_2" \in names => {"Workspace"} \subseteq TablesOf(names)
        /\ "workspace_4" \in names => {"VoicePerson"} \subseteq TablesOf(names)
        /\ "knowledge_1" \in names => {"KnowledgeItem"} \subseteq TablesOf(names)
    BY <1>0, FileNames, FileTablesCreated DEF Files
  <1>1. CASE m = Accounts1
    BY <1>1, <1>t, Behind, FileDependencies, FileTablesCreated
       DEF File, Audited, Accounts1
  <1>2. CASE m = Jobs1
    BY <1>2, <1>t, Behind, FileDependencies, FileTablesCreated
       DEF File, Audited, Jobs1
  <1>3. CASE m = Jobs2
    BY <1>3, <1>t, Behind, FileDependencies, FileTablesCreated
       DEF File, Audited, Jobs2
  <1>4. CASE m = Agents1
    BY <1>4, <1>t, Behind, FileDependencies, FileTablesCreated
       DEF File, Audited, Agents1
  <1>5. CASE m = Agents2
    BY <1>5, <1>t, Behind, FileDependencies, FileTablesCreated
       DEF File, Audited, Agents2
  <1>6. CASE m = Agents3
    BY <1>6, <1>t, Behind, FileDependencies, FileTablesCreated
       DEF File, Audited, Agents3
  <1>7. CASE m = Agents4
    BY <1>7, <1>t, Behind, FileDependencies, FileTablesCreated
       DEF File, Audited, Agents4
  <1>8. CASE m = Meetings1
    BY <1>8, <1>t, Behind, FileDependencies, FileTablesCreated
       DEF File, Audited, Meetings1, ChatTables, FileTables, RunTables, UploadTables
  <1>9. CASE m = Meetings2
    BY <1>9, <1>t, Behind, FileDependencies, FileTablesCreated
       DEF File, Audited, Meetings2
  <1>10. CASE m = Meetings3
    BY <1>10, <1>t, Behind, FileDependencies, FileTablesCreated
       DEF File, Audited, Meetings3
  <1>11. CASE m = Meetings4
    BY <1>11, <1>t, Behind, FileDependencies, FileTablesCreated
       DEF File, Audited, Meetings4
  <1>12. CASE m = Meetings5
    BY <1>12, <1>t, Behind, FileDependencies, FileTablesCreated
       DEF File, Audited, Meetings5
  <1>13. CASE m = Meetings6
    BY <1>13, <1>t, Behind, FileDependencies, FileTablesCreated
       DEF File, Audited, Meetings6
  <1>14. CASE m = Meetings7
    BY <1>14, <1>t, Behind, FileDependencies, FileTablesCreated
       DEF File, Audited, Meetings7
  <1>15. CASE m = Meetings8
    BY <1>15, <1>t, Behind, FileDependencies, FileTablesCreated
       DEF File, Audited, Meetings8
  <1>16. CASE m = Meetings9
    BY <1>16, <1>t, Behind, FileDependencies, FileTablesCreated
       DEF File, Audited, Meetings9
  <1>17. CASE m = Meetings10
    BY <1>17, <1>t, Behind, FileDependencies, FileTablesCreated
       DEF File, Audited, Meetings10
  <1>18. CASE m = Meetings11
    BY <1>18, <1>t, Behind, FileDependencies, FileTablesCreated
       DEF File, Audited, Meetings11
  <1>19. CASE m = Meetings12
    BY <1>19, <1>t, Behind, FileDependencies, FileTablesCreated
       DEF File, Audited, Meetings12
  <1>20. CASE m = Meetings13
    BY <1>20, <1>t, Behind, FileDependencies, FileTablesCreated
       DEF File, Audited, Meetings13
  <1>21. CASE m = Workspace1
    BY <1>21, <1>t, Behind, FileDependencies, FileTablesCreated
       DEF File, Audited, Workspace1, OfProject, ActionTables, OutcomeTables,
           TaskTables, ReportTables
  <1>22. CASE m = Workspace2
    BY <1>22, <1>t, Behind, FileDependencies, FileTablesCreated
       DEF File, Audited, Workspace2, Sourced
  <1>23. CASE m = Workspace3
    BY <1>23, <1>t, Behind, FileDependencies, FileTablesCreated
       DEF File, Audited, Workspace3
  <1>24. CASE m = Workspace4
    BY <1>24, <1>t, Behind, FileDependencies, FileTablesCreated
       DEF File, Audited, Workspace4
  <1>25. CASE m = Knowledge1
    BY <1>25, <1>t, Behind, FileDependencies, FileTablesCreated
       DEF File, Audited, Knowledge1, OfProject
  <1>26. CASE m = Knowledge2
    BY <1>26, <1>t, Behind, FileDependencies, FileTablesCreated
       DEF File, Audited, Knowledge2
  <1>27. CASE m = Knowledge3
    BY <1>27, <1>t, Behind, FileDependencies, FileTablesCreated
       DEF File, Audited, Knowledge3
  <1>28. CASE m = Knowledge4
    BY <1>28, <1>t, Behind, FileDependencies, FileTablesCreated
       DEF File, Audited, Knowledge4, PointTables, AdviceTables, SnapshotTables
  <1>29. CASE m = Knowledge5
    BY <1>29, <1>t, Behind, FileDependencies, FileTablesCreated
       DEF File, Audited, Knowledge5
  <1>30. CASE m = Knowledge6
    BY <1>30, <1>t, Behind, FileDependencies, FileTablesCreated
       DEF File, Audited, Knowledge6
  <1>31. CASE m = Benchmarks1
    BY <1>31, <1>t, Behind, FileDependencies, FileTablesCreated
       DEF File, Audited, Benchmarks1
  <1> QED
    BY <1>1, <1>2, <1>3, <1>4, <1>5, <1>6, <1>7, <1>8, <1>9, <1>10, <1>11, <1>12, <1>13,
       <1>14, <1>15, <1>16, <1>17, <1>18, <1>19, <1>20, <1>21, <1>22, <1>23, <1>24,
       <1>25, <1>26, <1>27, <1>28, <1>29, <1>30, <1>31 DEF Files

\* The tables that the model classes declare are what all files together create.
LEMMA AllTables == TablesOf(Newest) = ModelTables
  <1>1. \A t : t \in TablesOf(Newest) <=> \E m \in Files : t \in m.creates
    BY DEF TablesOf, Newest
  <1>2. /\ AccountsModels.tables = {"PasswordResetToken", "User"}
        /\ JobsModels.tables = {"BackgroundJob", "JobLog"}
        /\ AgentsModels.tables = {"AgentRun", "AgentRunStep"}
        /\ PlanModels.tables = {"CollaborationRun", "CollaborationStep", "PlannerRun",
                        "PlannerStep"}
        /\ MediaModels.tables = {"LiveMeetingSession", "LiveTranscriptSegment",
                         "MediaImportSession", "MediaMetadata", "Meeting", "MeetingEvent",
                         "MeetingFile", "MeetingJob", "UploadSession"}
        /\ TranscriptModels.tables = {"Speaker", "SpeakerEmbedding", "SpeakerQualitySignal",
                              "Transcript", "TranscriptSegment"}
        /\ AnalysisModels.tables = {"AIAnalysis", "AIOutput", "ChatConversation", "ChatMessage",
                            "MessageCitation", "ProcessingLog"}
        /\ PlanningModels.tables = {"Decision", "FollowUp", "Issue", "Milestone", "Note",
                            "Project", "Report", "Risk", "Task", "Workspace"}
        /\ PeopleModels.tables = {"AISuggestion", "ActivityLog", "Notification", "TaskAttachment",
                          "TaskComment", "VoicePerson", "VoicePersonEvent"}
        /\ IndexModels.tables = {"EmbeddingVersion", "KnowledgeItem", "KnowledgeVersion"}
        /\ EventModels.tables = {"KnowledgeEvent", "KnowledgeRetrieval"}
        /\ ConsensusModels.tables = {"KnowledgeConflict", "KnowledgeConsensus",
                             "KnowledgeConsensusRevision"}
        /\ ExecutiveModels.tables = {"ExecutiveRecommendation", "OrganizationSnapshot",
                             "ProjectSnapshot"}
        /\ FigureModels.tables = {"ExecutiveAlert", "ExecutiveExplanation",
                          "ExecutiveMetricSnapshot", "ExecutivePrediction",
                          "ExecutiveTrendPoint"}
        /\ BenchmarkModels.tables = {"BenchmarkConfig", "BenchmarkDataset", "BenchmarkRecording"}
        /\ ScoreModels.tables = {"BenchmarkResult", "BenchmarkRun"}
    BY SMTT(60) DEF Declared, Sourced,
         AccountsModels, JobsModels, AgentsModels, PlanModels, MediaModels,
         TranscriptModels, AnalysisModels, PlanningModels, PeopleModels, IndexModels,
         EventModels, ConsensusModels, ExecutiveModels, FigureModels, BenchmarkModels,
         ScoreModels
  <1>3. \A m \in Files : m.creates \subseteq ModelTables
    BY SMTT(60), <1>2, FileTablesCreated DEF Files, Models, ModelTables
  <1>4. \A c \in Models : \A t \in c.tables : \E m \in Files : t \in m.creates
    BY SMTT(60), <1>2, FileTablesCreated DEF Files, Models
  <1> QED
    BY <1>1, <1>3, <1>4 DEF ModelTables

\* And so are the keys.
LEMMA AllKeys == KeysOf(Newest) = ModelKeys
  <1>1. \A k : k \in KeysOf(Newest) <=> \E m \in Files : k \in m.keys
    BY DEF KeysOf, Newest
  <1>2. \A c \in Models : c.keys \subseteq ModelKeys
    BY DEF ModelKeys
  <1>3. \A m \in Files : m.keys \subseteq KeysOf(Newest)
    BY <1>1
  <1>4. \A m \in Files : m.keys \subseteq ModelKeys
    <2>1. Accounts1.keys \subseteq ModelKeys
      BY <1>2 DEF Models, File, Declared, Audited, Accounts1, AccountsModels
    <2>2. Jobs1.keys \subseteq ModelKeys
      BY <1>2 DEF Models, File, Declared, Audited, Jobs1, JobsModels
    <2>3. Jobs2.keys \subseteq ModelKeys
      BY <1>2 DEF Models, File, Declared, Audited, Jobs2, JobsModels
    <2>4. Agents1.keys \subseteq ModelKeys
      BY <1>2 DEF Models, File, Declared, Audited, Agents1, AgentsModels
    <2>5. Agents2.keys \subseteq ModelKeys
      BY <1>2 DEF Models, File, Declared, Audited, Agents2
    <2>6. Agents3.keys \subseteq ModelKeys
      BY <1>2 DEF Models, File, Declared, Audited, Agents3, AgentsModels, PlanModels
    <2>7. Agents4.keys \subseteq ModelKeys
      BY <1>2 DEF Models, File, Declared, Audited, Agents4, PlanModels
    <2>8. Meetings1.keys \subseteq ModelKeys
      BY <1>2
         DEF Models, File, Declared, Audited, Meetings1, ChatTables, FileTables,
             RunTables, UploadTables, MediaModels, TranscriptModels, AnalysisModels
    <2>9. Meetings2.keys \subseteq ModelKeys
      BY <1>2 DEF Models, File, Declared, Audited, Meetings2, TranscriptModels
    <2>10. Meetings3.keys \subseteq ModelKeys
      BY <1>2 DEF Models, File, Declared, Audited, Meetings3, AnalysisModels
    <2>11. Meetings4.keys \subseteq ModelKeys
      BY <1>2 DEF Models, File, Declared, Audited, Meetings4, AnalysisModels
    <2>12. Meetings5.keys \subseteq ModelKeys
      BY <1>2 DEF Models, File, Declared, Audited, Meetings5
    <2>13. Meetings6.keys \subseteq ModelKeys
      BY <1>2 DEF Models, File, Declared, Audited, Meetings6, MediaModels
    <2>14. Meetings7.keys \subseteq ModelKeys
      BY <1>2 DEF Models, File, Declared, Audited, Meetings7
    <2>15. Meetings8.keys \subseteq ModelKeys
      BY <1>2 DEF Models, File, Declared, Audited, Meetings8
    <2>16. Meetings9.keys \subseteq ModelKeys
      BY <1>2 DEF Models, File, Declared, Audited, Meetings9, MediaModels
    <2>17. Meetings10.keys \subseteq ModelKeys
      BY <1>2 DEF Models, File, Declared, Audited, Meetings10, MediaModels
    <2>18. Meetings11.keys \subseteq ModelKeys
      BY <1>2 DEF Models, File, Declared, Audited, Meetings11, TranscriptModels
    <2>19. Meetings12.keys \subseteq ModelKeys
      BY <1>2 DEF Models, File, Declared, Audited, Meetings12, TranscriptModels
    <2>20. Meetings13.keys \subseteq ModelKeys
      BY <1>2 DEF Models, File, Declared, Audited, Meetings13, TranscriptModels
    <2>21. Workspace1.keys \subseteq ModelKeys
      BY <1>2
         DEF Models, File, Declared, Audited, Workspace1, ActionTables, OutcomeTables,
             TaskTables, ReportTables, Sourced, OfProject, PlanningModels, PeopleModels
    <2>22. Workspace2.keys \subseteq ModelKeys
      BY <1>2
         DEF Models, File, Declared, Audited, Workspace2, Sourced, OfProject,
             PlanningModels, PeopleModels
    <2>23. Workspace3.keys \subseteq ModelKeys
      BY <1>2 DEF Models, File, Declared, Audited, Workspace3, PeopleModels
    <2>24. Workspace4.keys \subseteq ModelKeys
      BY <1>2 DEF Models, File, Declared, Audited, Workspace4, PeopleModels
    <2>25. Knowledge1.keys \subseteq ModelKeys
      BY <1>2 DEF Models, File, Declared, Audited, Knowledge1, OfProject, IndexModels
    <2>26. Knowledge2.keys \subseteq ModelKeys
      BY <1>2
         DEF Models, File, Declared, Audited, Knowledge2, OfProject, IndexModels,
             EventModels
    <2>27. Knowledge3.keys \subseteq ModelKeys
      BY <1>2 DEF Models, File, Declared, Audited, Knowledge3, ConsensusModels
    <2>28. Knowledge4.keys \subseteq ModelKeys
      BY <1>2
         DEF Models, File, Declared, Audited, Knowledge4, PointTables, AdviceTables,
             SnapshotTables, ExecutiveModels, FigureModels
    <2>29. Knowledge5.keys \subseteq ModelKeys
      BY <1>2 DEF Models, File, Declared, Audited, Knowledge5
    <2>30. Knowledge6.keys \subseteq ModelKeys
      BY <1>2 DEF Models, File, Declared, Audited, Knowledge6
    <2>31. Benchmarks1.keys \subseteq ModelKeys
      BY <1>2
         DEF Models, File, Declared, Audited, Benchmarks1, BenchmarkModels, ScoreModels
    <2> QED
      BY <2>1, <2>2, <2>3, <2>4, <2>5, <2>6, <2>7, <2>8, <2>9, <2>10, <2>11, <2>12,
         <2>13, <2>14, <2>15, <2>16, <2>17, <2>18, <2>19, <2>20, <2>21, <2>22, <2>23,
         <2>24, <2>25, <2>26, <2>27, <2>28, <2>29, <2>30, <2>31 DEF Files
  <1>5. \A c \in Models : c.keys \subseteq KeysOf(Newest)
    <2>1. AccountsModels.keys \subseteq KeysOf(Newest)
      BY <1>3 DEF Files, File, Declared, Audited, AccountsModels, Accounts1
    <2>2. JobsModels.keys \subseteq KeysOf(Newest)
      BY <1>3 DEF Files, File, Declared, Audited, JobsModels, Jobs1, Jobs2
    <2>3. AgentsModels.keys \subseteq KeysOf(Newest)
      BY <1>3 DEF Files, File, Declared, Audited, AgentsModels, Agents1, Agents3
    <2>4. PlanModels.keys \subseteq KeysOf(Newest)
      BY <1>3 DEF Files, File, Declared, Audited, PlanModels, Agents3, Agents4
    <2>5. MediaModels.keys \subseteq KeysOf(Newest)
      BY <1>3
         DEF Files, File, Declared, Audited, MediaModels, ChatTables, FileTables,
             RunTables, UploadTables, Meetings1, Meetings6, Meetings9, Meetings10
    <2>6. TranscriptModels.keys \subseteq KeysOf(Newest)
      BY <1>3
         DEF Files, File, Declared, Audited, TranscriptModels, ChatTables, FileTables,
             RunTables, UploadTables, Meetings1, Meetings2, Meetings11, Meetings12,
             Meetings13
    <2>7. AnalysisModels.keys \subseteq KeysOf(Newest)
      BY <1>3
         DEF Files, File, Declared, Audited, AnalysisModels, ChatTables, FileTables,
             RunTables, UploadTables, Meetings1, Meetings3, Meetings4
    <2>8. PlanningModels.keys \subseteq KeysOf(Newest)
      BY <1>3
         DEF Files, File, Declared, Audited, PlanningModels, Sourced, OfProject,
             ActionTables, OutcomeTables, TaskTables, ReportTables, Workspace1,
             Workspace2
    <2>9. PeopleModels.keys \subseteq KeysOf(Newest)
      BY <1>3
         DEF Files, File, Declared, Audited, PeopleModels, Sourced, OfProject,
             ActionTables, OutcomeTables, TaskTables, ReportTables, Workspace1,
             Workspace2, Workspace3, Workspace4
    <2>10. IndexModels.keys \subseteq KeysOf(Newest)
      BY <1>3
         DEF Files, File, Declared, Audited, IndexModels, OfProject, Knowledge1,
             Knowledge2
    <2>11. EventModels.keys \subseteq KeysOf(Newest)
      BY <1>3 DEF Files, File, Declared, Audited, EventModels, Knowledge2
    <2>12. ConsensusModels.keys \subseteq KeysOf(Newest)
      BY <1>3 DEF Files, File, Declared, Audited, ConsensusModels, Knowledge3
    <2>13. ExecutiveModels.keys \subseteq KeysOf(Newest)
      BY <1>3
         DEF Files, File, Declared, Audited, ExecutiveModels, PointTables, AdviceTables,
             SnapshotTables, Knowledge4
    <2>14. FigureModels.keys \subseteq KeysOf(Newest)
      BY <1>3
         DEF Files, File, Declared, Audited, FigureModels, PointTables, AdviceTables,
             SnapshotTables, Knowledge4
    <2>15. BenchmarkModels.keys \subseteq KeysOf(Newest)
      BY <1>3 DEF Files, File, Declared, Audited, BenchmarkModels, Benchmarks1
    <2>16. ScoreModels.keys \subseteq KeysOf(Newest)
      BY <1>3 DEF Files, File, Declared, Audited, ScoreModels, Benchmarks1
    <2> QED
      BY <2>1, <2>2, <2>3, <2>4, <2>5, <2>6, <2>7, <2>8, <2>9, <2>10, <2>11, <2>12,
         <2>13, <2>14, <2>15, <2>16 DEF Models
  <1> QED
    BY <1>1, <1>4, <1>5 DEF ModelKeys

-----------------------------------------------------------------------------
\* What holds in every state: the schema is that of the migrations that have run,
\* each of them after those it depends on.
SchemaInv ==
    /\ applied \subseteq Newest
    /\ Closed(applied)
    /\ tables = TablesOf(applied)
    /\ foreignKeys = KeysOf(applied)

\* It holds of the empty database.
LEMMA SchemaInvInit == MigrationsInit => SchemaInv
  BY DEF MigrationsInit, SchemaInv, Closed, TablesOf, KeysOf

\* A migration adds what it creates; its name is of no other.
LEMMA SchemaInvApply == ASSUME SchemaInv, NEW m \in Files, Apply(m) PROVE SchemaInv'
  <1> USE DEF SchemaInv
  <1>1. \A n \in Files : n.name \in applied' <=> n.name \in applied \/ n = m
    BY NamesDiffer DEF Apply
  <1>2. applied' \subseteq Newest
    BY DEF Apply, Newest
  <1>3. Closed(applied)'
    BY <1>1 DEF Apply, Closed
  <1>4. tables' = TablesOf(applied')
    BY <1>1 DEF Apply, TablesOf
  <1>5. foreignKeys' = KeysOf(applied')
    BY <1>1 DEF Apply, KeysOf
  <1> QED
    BY <1>2, <1>3, <1>4, <1>5

\* A migration taken back drops what it alone has made, and nothing that has
\* run depends on it.
LEMMA SchemaInvUnapply == ASSUME SchemaInv, NEW m \in Files, Unapply(m) PROVE SchemaInv'
  <1> USE DEF SchemaInv
  <1>1. \A n \in Files : n.name \in applied' <=> n.name \in applied /\ n # m
    BY NamesDiffer DEF Unapply
  <1>2. applied' \subseteq Newest
    BY DEF Unapply
  <1>3. Closed(applied)'
    BY <1>1 DEF Unapply, Closed
  <1>4. tables' = TablesOf(applied')
    <2>1. tables' = TablesOf(applied) \ m.creates
      BY DEF Unapply
    <2> QED
      BY <2>1, <1>1, CreatedOnce DEF TablesOf
  <1>5. foreignKeys' = KeysOf(applied')
    <2>1. foreignKeys' = KeysOf(applied) \ m.keys
      BY DEF Unapply
    <2> QED
      BY <2>1, <1>1, KeysOnce DEF KeysOf
  <1> QED
    BY <1>2, <1>3, <1>4, <1>5

\* A schema made of closed migrations has both tables of each key, lets the next
\* migration run, and is complete when they all have run.
LEMMA SchemaInvHolds == SchemaInv => SchemaHolds
  <1> SUFFICES ASSUME SchemaInv PROVE SchemaHolds
    OBVIOUS
  <1> USE DEF SchemaInv
  <1>1. ASSUME NEW k \in foreignKeys PROVE {k[1], k[2]} \subseteq tables
    <2>1. PICK m \in Files : m.name \in applied /\ k \in m.keys
      BY DEF KeysOf
    <2>2. m.after \subseteq applied /\ m.creates \subseteq TablesOf(applied)
      BY <2>1 DEF Closed, TablesOf
    <2> QED
      BY <2>1, <2>2, KeysHaveTables
  <1>2. ASSUME NEW m \in Files, m.after \subseteq applied PROVE Runs(m)
    BY <1>2, KeysHaveTables DEF Runs
  <1>3. applied = Newest => tables = ModelTables /\ foreignKeys = ModelKeys
    BY AllTables, AllKeys
  <1> QED
    BY <1>1, <1>2, <1>3 DEF SchemaHolds

\* SchemaHolds, of migrations applied and taken back in any order the dependencies
\* allow: every key has both its tables, every migration that may run can run, and
\* the newest schema is the one that the model classes declare.
THEOREM SchemaStands == MigrationsSpec => []SchemaHolds
  <1>1. SchemaInv /\ [MigrationsNext]_migrationVars => SchemaInv'
    <2> SUFFICES ASSUME SchemaInv, [MigrationsNext]_migrationVars PROVE SchemaInv'
      OBVIOUS
    <2>1. CASE IndexAgain
      BY <2>1 DEF IndexAgain, SchemaInv, Closed, TablesOf, KeysOf
    <2>2. CASE UNCHANGED migrationVars
      BY <2>2 DEF migrationVars, SchemaInv, Closed, TablesOf, KeysOf
    <2> QED
      BY <2>1, <2>2, SchemaInvApply, SchemaInvUnapply DEF MigrationsNext
  <1> QED
    BY <1>1, SchemaInvInit, SchemaInvHolds, PTL DEF MigrationsSpec
=============================================================================
