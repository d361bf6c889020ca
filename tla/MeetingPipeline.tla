-------------------------- MODULE MeetingPipeline --------------------------
(***************************************************************************)
(* The stages of the meeting_processing pipeline and the data they hand to *)
(* each other (backend/apps/meetings/pipeline.py), over the runs of one    *)
(* job: first run, retry, re-queue.                                        *)
(*                                                                         *)
(* A stage leaves its result in ctx.shared, a dictionary that lives as     *)
(* long as the run.  The row remembers only which stages are done, so a    *)
(* run that resumes skips them and finds the dictionary empty.  Runs of    *)
(* the job do not overlap here (JobEngine is about that); by its           *)
(* CommittedIsPrefix the stages done are a prefix of the order, and a      *)
(* number stands for them.                                                 *)
(*                                                                         *)
(* Left out: what the stages compute, and the keys of ctx.shared whose     *)
(* reader loads them again when they are absent (meeting, current_file,    *)
(* transcript_obj).                                                        *)
(***************************************************************************)
EXTENDS Naturals, Sequences

CONSTANT MaxRuns    \* bound on the runs of the job

ASSUME MaxRunsAssumption == MaxRuns \in Nat \ {0}

VARIABLES
    config,     \* what the deployment and the request chose; never changes
    status,     \* row: the job's status; "lost" is RUNNING without a worker
    done,       \* row: how many stages are completed
    runs,       \* how many runs have begun
    from,       \* run: how many stages were completed when it began
    ctx,        \* run: the keys present in ctx.shared
    hinted,     \* run: stt_result was made with the language hint
    analysed,   \* run: the transcript ai_result was made from
    temps,      \* temporary audio files on disk, each with the run that made it
    transcript, \* database: the meeting's transcript
    analysis    \* database: the transcript the current AI analysis was made from

shared   == <<ctx, hinted, analysed>>
database == <<transcript, analysis>>
pipelineVars     == <<config, status, done, runs, from, shared, temps, database>>

\* The dependencies are a chain, so ordered() returns the stages as declared.
Order ==
    << "validation", "media_inspection", "audio_extraction",
       "audio_normalization", "language_detection", "speech_to_text",
       "transcript_cleanup", "transcript_segmentation", "speaker_diarization",
       "store_transcript", "speaker_naming", "translation", "ai_analysis",
       "store_ai_results", "finalize" >>

Stages == {Order[i] : i \in 1..Len(Order)}

\* The stages the engine tries again within a run (retryable).
Retryable == {"language_detection", "speech_to_text", "transcript_cleanup",
              "transcript_segmentation", "translation", "ai_analysis",
              "finalize"}

\* The keys of ctx.shared whose absence a reader does not make up for.
Keys == {"duration", "audio_path", "language_hint", "stt_result",
         "clean_text", "segment_rows", "ai_result", "temp_files"}

\* audio: the provider needs audio and ffmpeg is installed, so the two audio
\* stages write temporary files.  override: the payload names a language.
Config == [audio : BOOLEAN, override : BOOLEAN]

\* What a stage puts into ctx.shared.
Provides(s) ==
    CASE s = "media_inspection"        -> {"duration"}
      [] s = "audio_extraction"        -> IF config.audio THEN {"temp_files"}
                                          ELSE {}
      [] s = "audio_normalization"     -> IF config.audio
                                          THEN {"temp_files", "audio_path"}
                                          ELSE {}
      [] s = "language_detection"      -> IF config.override
                                          THEN {"language_hint"} ELSE {}
      [] s = "speech_to_text"          -> {"stt_result"}
      [] s = "transcript_cleanup"      -> {"clean_text"}
      [] s = "transcript_segmentation" -> {"segment_rows"}
      [] s = "ai_analysis"             -> {"ai_result"}
      [] OTHER                         -> {}

\* What a stage reads from it, with a default or without.
Reads(s) ==
    CASE s = "speech_to_text"          -> {"audio_path", "language_hint",
                                           "duration"}
      [] s = "transcript_cleanup"      -> {"stt_result"}
      [] s = "transcript_segmentation" -> {"stt_result"}
      [] s = "speaker_diarization"     -> {"segment_rows", "audio_path",
                                           "duration"}
      [] s = "store_transcript"        -> {"stt_result", "segment_rows",
                                           "clean_text", "duration"}
      [] s = "store_ai_results"        -> {"ai_result"}
      [] s = "finalize"                -> {"temp_files"}
      [] OTHER                         -> {}

\* Bug: a stage makes do without its input.
RequiresNothing(s) == Reads(s) \cap {}

\* What it cannot do without: `result.segments`, `result.language` and
\* `result.parsed` raise when the result is None.  Every other read has a
\* default.
Requires(s) == Reads(s) \cap {"stt_result", "ai_result"}

\* run: the run that stored it, 0 for none.  from: how many stages that run
\* had skipped.
NoTranscript == [run |-> 0, from |-> 0, text |-> FALSE, rows |-> FALSE,
                 hinted |-> FALSE]

AudioFiles == {"extracted", "normalized"}

PipelineTypeOK ==
    /\ config \in Config
    /\ status \in {"queued", "running", "lost", "succeeded", "failed",
                   "canceled"}
    /\ done \in 0..Len(Order)
    /\ runs \in 0..MaxRuns
    /\ from \in 0..Len(Order)
    /\ ctx \subseteq Keys
    /\ hinted \in BOOLEAN
    /\ analysed \in 0..MaxRuns
    /\ temps \subseteq (AudioFiles \X (1..MaxRuns))
    /\ transcript \in [run : 0..MaxRuns, from : 0..Len(Order), text : BOOLEAN,
                       rows : BOOLEAN, hinted : BOOLEAN]
    /\ analysis \in 0..MaxRuns

PipelineInit ==
    /\ config \in Config
    /\ status = "queued"
    /\ done = 0
    /\ runs = 0
    /\ from = 0
    /\ ctx = {}
    /\ hinted = FALSE
    /\ analysed = 0
    /\ temps = {}
    /\ transcript = NoTranscript
    /\ analysis = 0

-----------------------------------------------------------------------------
(* A run.                                                                  *)

\* The engine makes a new ProcessingContext for every run.
BeginRun ==
    /\ status = "queued"
    /\ runs < MaxRuns
    /\ status' = "running"
    /\ runs' = runs + 1
    /\ from' = done
    /\ ctx' = {}
    /\ hinted' = FALSE
    /\ analysed' = 0
    /\ UNCHANGED <<config, done, temps, database>>

AtStage == status = "running" /\ done < Len(Order)

\* AIAnalysisStage raises when there is no transcript with a clean text.
CanRun(s) ==
    /\ Requires(s) \subseteq ctx
    /\ s = "ai_analysis" => transcript.text

\* The stage does its work.  Then the engine commits it, or something raises
\* after the work (saving the meeting, writing the log) and the stage is tried
\* again or fails, or the worker is lost before the commit.
Works(s) ==
    /\ AtStage
    /\ s = Order[done + 1]
    /\ CanRun(s)
    /\ ctx' = ctx \cup Provides(s)
    /\ \/ done' = done + 1 /\ status' = status
       \/ s \in Retryable /\ UNCHANGED <<done, status>>
       \/ status' \in {"failed", "lost"} /\ done' = done
    /\ UNCHANGED <<config, runs, from>>

Special == {"audio_extraction", "audio_normalization", "speech_to_text",
            "ai_analysis", "store_transcript", "store_ai_results", "finalize"}

\* The stages that touch only ctx.shared, and those whose results no property
\* here is about (diarization, naming, translation).
ComputeStage ==
    /\ \E s \in Stages \ Special : Works(s)
    /\ UNCHANGED <<hinted, analysed, temps, database>>

AudioStage(s, file) ==
    /\ Works(s)
    /\ temps' = IF config.audio THEN temps \cup {<<file, runs>>} ELSE temps
    /\ UNCHANGED <<hinted, analysed, database>>

ExtractAudio   == AudioStage("audio_extraction", "extracted")
NormalizeAudio == AudioStage("audio_normalization", "normalized")

SpeechToText ==
    /\ Works("speech_to_text")
    /\ hinted' = ("language_hint" \in ctx)
    /\ UNCHANGED <<analysed, temps, database>>

\* One transaction replaces the meeting's transcript and segments.
StoreTranscript ==
    /\ Works("store_transcript")
    /\ transcript' = [run    |-> runs,
                      from   |-> from,
                      text   |-> "clean_text" \in ctx,
                      rows   |-> "segment_rows" \in ctx,
                      hinted |-> hinted]
    /\ UNCHANGED <<hinted, analysed, temps, analysis>>

Analyse ==
    /\ Works("ai_analysis")
    /\ analysed' = transcript.run
    /\ UNCHANGED <<hinted, temps, database>>

StoreAIResults ==
    /\ Works("store_ai_results")
    /\ analysis' = analysed
    /\ UNCHANGED <<hinted, analysed, temps, transcript>>

\* Removes the temporary files this run registered (os.remove works).
Finalize ==
    /\ Works("finalize")
    /\ temps' = IF "temp_files" \in ctx
                THEN {t \in temps : t[2] # runs} ELSE temps
    /\ UNCHANGED <<hinted, analysed, database>>

\* The run ends early; what is completed stays completed.
Stop(s) ==
    /\ AtStage
    /\ status' = s
    /\ UNCHANGED <<config, done, runs, from, shared, temps, database>>

\* A stage raises for good: an input is missing, or whatever else can fail.
\* StoreTranscriptStage has deleted the old transcript when it reads the
\* missing result, and its transaction takes the deletion back.
StageFails == Stop("failed")

\* The engine sees the cancellation between two stages.
CancelRun == Stop("canceled")

\* The worker is lost before the stage does anything.
LoseWorker == Stop("lost")

Succeed ==
    /\ status = "running"
    /\ done = Len(Order)
    /\ status' = "succeeded"
    /\ UNCHANGED <<config, done, runs, from, shared, temps, database>>

\* JobManager.retry, behind the guard of its view.
Retry ==
    /\ status \in {"failed", "canceled"}
    /\ status' = "queued"
    /\ UNCHANGED <<config, done, runs, from, shared, temps, database>>

\* JobManager.requeue, of a job that is not being run.
Requeue ==
    /\ status # "running"
    /\ status' = "queued"
    /\ done' = 0
    /\ UNCHANGED <<config, runs, from, shared, temps, database>>

PipelineNext ==
    \/ BeginRun \/ ComputeStage \/ ExtractAudio \/ NormalizeAudio
    \/ SpeechToText \/ StoreTranscript \/ Analyse \/ StoreAIResults \/ Finalize
    \/ StageFails \/ CancelRun \/ LoseWorker \/ Succeed
    \/ Retry \/ Requeue

PipelineSpec == PipelineInit /\ [][PipelineNext]_pipelineVars

-----------------------------------------------------------------------------

\* A transcript is stored whole: store_transcript takes an absent text for ""
\* and absent rows for none, and only the need for stt_result keeps a resumed
\* run from replacing a good transcript by an empty one.  And "explicit override
\* wins": a run that did the language detection itself transcribes in the
\* language the payload names.
TranscriptIsWhole ==
    transcript.run > 0 =>
        /\ transcript.text /\ transcript.rows
        /\ config.override /\ transcript.from < 5 => transcript.hinted

\* The analysis a completed job leaves was made from the transcript it leaves,
\* although the two may have been stored by different runs.
AnalysisIsOfTranscript ==
    status = "succeeded" => analysis > 0 /\ analysis = transcript.run

\* What the next stage would read of what the stages completed have provided.
Expected ==
    Reads(Order[done + 1])
        \cap UNION {Provides(Order[i]) : i \in 1..done}

\* The engine's comment: "Operators can still manually Retry the job, which
\* resumes idempotently from completed stages".
ResumedRunLacksNothing ==
    AtStage => Expected \subseteq ctx /\ CanRun(Order[done + 1])
=============================================================================
