# MeetingMind-AI: verification project

TLA+ models of the backend of MeetingMind-AI (`src/backend`, Django + Celery +
Channels), the TLC runs that check them on small instances, and proofs checked
by TLAPS for every instance.

To check everything: `tlc -config X.cfg M.tla` for each run of `PROJECT.json`,
and `tlapm M.tla` for each `*Proofs.tla`.

## 1. Inventory

| component | state it keeps | operations | interacts with |
|---|---|---|---|
| Job engine (`apps/jobs`) | `BackgroundJob` row: status, attempts, completed stages | enqueue, dispatch, claim, run of the stages with retries, cancel, pause, resume, retry, requeue | broker (messages), API requests, job events |
| Meeting pipeline (`meetings/pipeline.py`) | `ctx.shared` of a run; `Transcript`, `TranscriptSegment`, `Speaker`, `AIAnalysis` | 15 stages | job engine, media files, providers |
| Meeting processing (`meetings/services/uploads.py`, `subscribers.py`) | `Meeting.processing_status`, `MeetingJob` links, `MeetingFile` | upload, reprocess, retranscribe, replace, AI regenerate; subscribers of job events | job engine, import sessions |
| Media import (`meetings/ingest`) | `MediaImportSession`: status, meeting, duplicate action | create, cancel, run (analyse, download, hand over to upload) | Celery, uploads, subscribers of job events |
| Live recording (`meetings/live`, `useRecorder.ts`) | `LiveSession` status, chunks; the recorder of the page | start, chunk, pause, resume, stop, disconnect | websocket messages, uploads |
| Transcript and speakers (`meetings/services`) | segments with their texts and labels, speakers with their names and numbers | edit, restore, rename, accept a name, merge, re-diarize | pipeline, voice identities |
| Voice identity (`workspace/services/voice_identity.py`) | `VoicePerson` profiles, links from speakers | create, link, confirm, merge, split, delete, recompute | speakers |
| Knowledge index (`knowledge/services/index.py`, `versioning.py`, `temporal.py`) | `KnowledgeItem` chains, `KnowledgeVersion`, `KnowledgeEvent` | index a meeting, counts, time travel | job events, requests |
| Consensus (`knowledge/services/consensus.py`) | positions, revisions, conflicts | compute, settle a conflict | requests |
| Executive view (`knowledge/services/executive.py`) | snapshots, metric points, alerts, recommendations, predictions | refresh, change a status | job events, requests |
| Suggestions (`workspace/services/materialize.py`) | `AISuggestion`, the records made of them, `ActivityLog` | materialize, approve, reject, archive | job events, requests |
| Reports (`workspace/services/reports.py`) | `Report` rows and versions | generate, delete | requests |
| Agents (`apps/agents`) | `PlannerRun`, `AgentRun`, a thread pool | plan, hold, approve, run in parallel, merge | requests, knowledge |
| Benchmarks (`apps/benchmarks`) | `BenchmarkRecording`, scores | seed, import, register, evaluate | import sessions, job events |
| Accounts (`apps/accounts`) | password, `PasswordResetToken` | forgotten password, reset, change | requests |
| Browser session (`frontend/src/lib/api`, `store/auth.ts`) | token pairs per tab and in storage | open, reload and close a tab; request, refresh, retry, logout | SimpleJWT with rotation |
| Demo workspace (`common/demo.py`) | one account; `JobManager.dispatch` and settings of a process | reset, seed | every other component |
| Database schema (`*/migrations`) | tables and foreign keys | migrate forward and back | deployment |

The parts that are not modelled are listed in section 7 and in `PROJECT.json`.

What is hard in this system:

- one row is written by several processes (a worker, requests, subscribers of
  events), each holding a Python object it loaded earlier, and most writers do
  not lock: stale decisions and lost updates;
- delivery is at least once and can also be lost: a message can be duplicated
  (visibility timeout), returned (worker lost) or never sent (crash between the
  commit and the `on_commit` hook);
- a run is long, and is raced by cancel, pause, resume, requeue and by a new
  upload that supersedes it;
- retries inside a run, retries of a run, and resumption from the stages that
  an earlier run completed;
- a browser, a socket and a consumer that each hold a state of one recording;
  several tabs that each hold a token pair of one session;
- values that are copies of others (a label on a segment, a profile, a count, a
  snapshot) and are brought up to date by whoever changes the original;
- numbers drawn from the largest one stored, with a unique constraint or without;
- threads that outlive the deadline of those who wait for them, and a process
  whose functions and settings one request replaces for all others.

What makes each part correct:

- job engine: a queued job is run once, its stages in order and each recorded
  when it has run; cancellation, retry and resumption lose and repeat nothing;
- meeting processing: one active job per meeting, a status that tells the
  truth and does not stick, and a transcript and analysis of the recording shown;
- versions: one current row per meeting, the newest, no gaps;
- live recording: what was recorded is in one meeting; media import: one meeting
  per source unless asked otherwise, and an outcome;
- transcripts: an edit never destroys what the machine heard, and copies agree
  with their originals once nobody is in between;
- knowledge: rows, events and versions account for each other, and the past can
  be asked for; a consensus's history is that of its positions; a dashboard is
  what one refresh wrote;
- workspace: nothing is suggested twice, no record without an approval and its
  log entry; agents: nothing runs before it is approved, and an answer is whole;
- accounts and sessions: a link works once, a refresh ends no session, a logout
  ends its session where the server hears of it in time;
- demo: a reset leaves the process as it found it; schema: every migration finds
  what it refers to.

`PROJECT.json` lists the hazards at their lines, each with the properties that
would catch it going wrong.

## 2. Plan

Done, in this order:

1. `JobEngine`, the job engine with its broker, workers and requests;
   `JobLifecycle`, what it promises; `JobEngineProofs`.
2. `MeetingPipeline`, what the stages of one job hand to each other and what a
   resumed run lacks.
3. `VersionedRows` with its abstract `VersionChain`.
4. `MeetingProcessing`, the jobs of one meeting; `MeetingProcessingProofs`.
5. `LiveSession`, `MediaImport`: the two other ways a meeting comes to be, with
   `LiveSessionProofs` and `MediaImportProofs`.
6. What is made of meetings: `KnowledgeIndex`, `Consensus`, `Executive`,
   `VoiceIdentity`, `Speakers`, and the benchmark's `SpeakerScoring`.
7. What users ask for: `Suggestions`, `AgentPlanner`, `AuthSession`, `Accounts`,
   `Reports`, `Benchmarks`, `Demo`.
8. `Migrations`, the schema under all of it.
9. `MCCapture`, `MCKnowledge` and `MCRequests`, which compose 5, and 2, 3, 6, 7 and
   8, for TLC.
10. The proofs about 2, 3, 6, 7 and 8, by what the components share:
    `VersionsProofs` (`VersionedRows`, `KnowledgeIndex`), `KnowledgeProofs`
    (`MeetingPipeline`, `Consensus`, `Executive`, `VoiceIdentity`,
    `SpeakerScoring`, `Migrations`), `AccountsProofs` (`Accounts`, `AuthSession`) and
    `WorkspaceProofs` (`Speakers`, `Benchmarks`, `Demo`, `AgentPlanner`,
    `Reports`, `Suggestions`).

11. The safety halves of the four liveness properties, in the proof modules of
    1, 4 and 5, and the type invariants that only TLC had evaluated.

Left: of the partly modelled components, the preview of a live recording, upload
sessions with their validation and storage, and formulas of the executive view.

## 3. Modules

How the modules fit: `JobEngine` is one job at the grain of single reads and
writes of its row. `MeetingPipeline` opens up what one run does between claim
and end, and relies on `CommittedIsPrefix` of `JobEngine` when it writes the
completed stages as a number. `MeetingProcessing` puts several jobs of one
meeting together; of a single job it uses what `JobLifecycle` promises (one run
per queuing). `VersionedRows` is the one step of a run, and of an upload, that
`MeetingProcessing` draws as atomic. `LiveSession` and `MediaImport` end where
`create_upload` queues the first job. `KnowledgeIndex`, `Executive`,
`Suggestions` and `Benchmarks` begin where a job publishes that it has ended:
their actions for it run in the thread of that job, and jobs may end together.
The others begin with a request.

Each module that keeps rows uses the same grain: a request or thread *reads*
(one action, its local copy in a function over the actors), *decides* on the
copy, and *writes* in a later action; only a row lock or a unique constraint of
the code joins the two or refuses the second.

### JobEngine, JobLifecycle (`apps/jobs`)

| state | code |
|---|---|
| `status`, `done`, `attempts` | `BackgroundJob.status`, `metadata["completed_stages"]`, `attempts` |
| `pc`, `pos`, `mem`, `attempt` per worker | where `PipelineEngine.run` stands, the index of the stage, its local `completed` (and the metadata object it saves over the row's), the attempt of the stage |
| `req` per request | the action of `JobViewSet`, and the status the request has read |
| `unsent`, `msgs` | `on_commit` hooks that have not run; messages on the broker |
| `crashes`, `redeliveries`, `lostSends` | faults so far |
| `queuings`, `executed` | history: how often QUEUED was stored, which stages have ever run to the end |

`acquire` is one step, because it reads and writes under `select_for_update`.
Everything else in `apps/jobs` reads first and writes later: a run is a step
per read or write of the row, and a request is `ReadJob` followed by a commit
(the request is one transaction, `ATOMIC_REQUESTS`). A request that decides on
a status that has since changed is therefore in every run of this module.
A retry inside a run saves the whole `metadata` object, so `StageRetries` and
`StageFails` overwrite `done` with the memory of their run.

`JobLifecycle` says what the status means to the rest of the system: only a
claim of a queued job shows it as RUNNING, and each claim uses up one queuing.

### MeetingPipeline (`apps/meetings/pipeline.py`)

`Order` is what the topological sort of the declared dependencies yields.
`Reads`, `Provides` and `CanRun` list, stage by stage, the keys of `ctx.shared`
a stage reads, those it leaves, and what makes it raise. The state is the row
(`status`, `done`), the dictionary of the run (`ctx`), the temporary files and
the database. A run may fail, be cancelled or be lost at any stage, and a
worker may be lost after a stage has stored its result and before the engine
has recorded the stage. Keys that their reader loads again when absent
(`meeting`, `current_file`, `transcript_obj`) are left out. `config` says
whether the provider needs extracted audio (temporary files) and whether the
payload names a language. Stages whose results no property is about
(diarization, naming, translation) only pass on their keys.

### VersionedRows, VersionChain (`StoreAIResultsStage`, `create_upload`)

Three statements of a READ COMMITTED transaction: largest version, clearing of
`is_current`, creation. Rows appear with the last. The unique constraint on
(meeting, version) refuses the second creation of a version and rolls its
transaction back. `VersionChain` publishes 1, 2, 3, ... and keeps the newest
current.

### MeetingProcessing (`apps/meetings/services/uploads.py`, `subscribers.py`)

`jstatus`, `kind` are the jobs; `mstatus` is `Meeting.processing_status`;
`file`, `transcript`, `analysis` are versions of the recording and which of
them, through which job, the transcript and the analysis are of. Requests:
reprocess, regenerate and retranscribe under the lock (`has_active_job`, and
the status of the meeting); replacing the recording, which cancels what is
active first, in two steps because what it read may be stale; cancel and retry
through the jobs API, which ask nothing of the meeting and decide on the status
that the request has read (`asked`), whatever the row says by then. A run reads the
recording, stores the transcript, stores the analysis, settles its job and
publishes its event, each at its own time; the subscriber sets `mstatus`.
`happened` notes what operators have done (`overlapped`: a run was in progress
when the next job was queued; `retried`; `dropped`: a queued job was cancelled;
`late`: a cancellation that had read RUNNING was written when its job was under way
no more): the properties that need it name it.

### LiveSession (`apps/meetings/live`, `useRecorder.ts`)

The recorder in the browser (`ui`, `rec`, `heard`, `sent`, `flushing`,
`pauses`), the socket in order and in both directions (`up`, `down`, `open`), the consumer
(`at`), the session row (`marked` is its status, `stored`, `meeting`) and the meetings made
of it (`uploads`). Audio is counted in units; the file is what has been
appended. The browser is as much part of the protocol as the server: that a
pause cannot follow a stop, and that the last data event follows "stop", is
decided there. `asked` is what had been sent when the user first stopped or
left; `happened` notes refusals, exceptions, crashes and dropped messages.

### MediaImport (`apps/meetings/ingest`)

Sessions of one source by one owner, all yielding the same bytes, which is the
case in which every layer of duplicate detection speaks: the URL when the
session is created (`Create`), platform id or GUID after analysis
(`CheckSource`), the checksum in `create_upload` (`CheckFile`). `Recorded` and
`Stored` are the two queries: the source is recorded on a meeting only after
`create_upload` has committed (`Store`, then `Stamp`, then `Link`), so they differ. A worker's session object is
written back by `Put` (`_set`) whatever the row says by then. `cancel` is what
a cancel request has read. The statuses between PENDING and PROCESSING are one
("importing"): nothing distinguishes them. `overlapped` and `late` are
history: two runs were between the checksum query and their commit at once;
the sessions whose job had ended when PROCESSING was stored, or was canceled.

### Speakers (`meetings/services/speakers.py`, `transcripts.py`, `rediarize.py`)

`segment` and `speaker` are the rows of one meeting; a segment has a reference to
its speaker and a copy of the speaker's name (`label`). `pending` is what each
request has read and will write. `ReadForEdit`/`SaveSegments` are `edit_segment`
and the two restores; `ReadForRename`/`SaveRename` the two ways to name a speaker
(what the model suggests is any name); `ReadForMerge`, `MoveSegments` and
`FinishMerge` are `merge_speakers`, split where its rows are locked and its source
is deleted by another statement; `ReadForDiarization`/`SaveDiarization` are
`rediarize_meeting`, which nothing in the code calls; `StoreAnew` is the stage that
replaces all of it. `typed` and `overlapping` are history.

### KnowledgeIndex (`knowledge/services/index.py`, `versioning.py`, `temporal.py`)

`source` is what the meeting's entities say, `chain` the versions of each in
`KnowledgeItem`, `kvs` and `events` the numbered knowledge versions and the audit
stream. A call of `index_meeting` reads the meeting, reads the current rows, plans,
draws a version (`select_for_update` locks nothing under an aggregate: only the
unique constraint orders two calls), writes in one transaction, and refreshes the
counts in another. `instant` is the clock that validity windows are made of.

### Consensus (`knowledge/services/consensus.py`)

The decisions on one topic, some of them reversed, the current position with its
revisions, and the topic's conflict. What the model answers is any position and
confidence. A computation reads, answers, and stores; users settle the conflict in
between.

### Executive (`knowledge/services/executive.py`)

A refresh reads (`workspace` is what the computations would find), draws snapshot
versions, and writes: as a request in one transaction, as a subscriber with the
project's row first. `DashboardIsOneWrite` relates the rows written beside each
other. `StartDashboard` is the dashboard's first look, which refreshes the
organization alone; where no project has a snapshot it goes on as a full refresh,
and is drawn as one from the start. Alerts and recommendations keep what users do
to them.

### VoiceIdentity (`workspace/services/voice_identity.py`)

Links from speakers to identities, and profiles computed from the links. Every
operation reads rows and saves them later; `recompute` saves the whole row.
`DeleteSpeakers` is what `merge_speakers`, `store_transcript` and a re-diarization
do: they delete linked speakers and recompute nothing, so the profile goes on
counting them. `ProfilesFollowLinks` names those identities, and the ones left over
by requests that met one another, with the histories `stale` and `met`.

### SpeakerScoring (`benchmarks/services`)

One evaluation: `Clusterable`, `AssignNearest`, `MergeSmallSpeakers`, and the
metrics as operators over a timeline of slots: durations and overlaps are numbers
of slots, so that a sum over labels is the number of slots of their union. Labels the clustering finds are any
choice, so the invariant is a check of the metrics against their definition over
every labelling of the timeline.

### Migrations (`*/migrations`)

The 31 files as records (dependencies, tables with what their keys refer to, keys
added later), applied and taken back in any order that Django allows; `SchemaHolds`
relates the tables and keys to those of the model classes, and the keys to tables
that exist.

### Suggestions (`workspace/services/materialize.py`, `activity.py`)

Job threads read what was suggested before (`ReadExisting`) and emit what is new;
requests read a suggestion (`OpenReview`) and approve, reject or archive it later.
Similarity and grounding are choices: an approval that asks for it may be merged
into any task there is. What a record says is left out, since an approval may edit
it and so may the user; `records` are those ever made, for the log keeps the id of
one that is deleted.

### AgentPlanner (`agents/planner/service.py`, `framework/executor.py`)

`plan` and `run` are the rows, `task` the futures of the pool, `step` where
`PlannerService.run` stands. `as_completed` hands over futures or times out; the
`with` block then waits for the threads that are left. An agent's failed run is
followed by one more.

### AuthSession (`frontend/src/lib/api/client.ts`, `store/auth.ts`, `accounts`)

`tab` is the pair in a tab's store and `persisted` the one in localStorage; a call
that is refused waits for `promise`, the refresh that all calls of a tab share,
and is sent once more. `issued`, `session`, `blacklisted` and `expired` are the
server's side. A page can be closed, or loaded again (`CloseTab`, then `OpenTab`), at
any moment, and a request can fail at any moment (`Settle`, `FailRefresh`); what had
been sent and nobody waits for is `adrift`, and the server may still serve it
(`ServeAdrift`). Four histories say what happened to a session: `tangled` (two tabs
used it, or a page was left with its refresh or its logout under way), `ended` (it was
logged out), `overtaken` (a refresh crossed the logout), `unheard` (the logout failed).
What `setUser` does is left out: it writes the pair of its own tab back to
localStorage.

### Accounts (`accounts/services/auth.py`)

Transactions and their row locks: an UPDATE sees the rows committed when it starts
and waits for those that others hold; `holder` is whose transaction has a token.

### Reports (`workspace/services/reports.py`)

The four statements of a generation, over a table without a unique constraint.

### Benchmarks (`benchmarks/services/imports.py`, `subscribers.py`)

The rows of recordings, the import sessions and meetings they wait for, and the
job events that are all they hear of them. A session uploads its meeting, whose job
is then on its way, before it stores the meeting on itself (`SessionSteps`), so the
job may end first (`missed`); and of jobs of one meeting that end together
(`racing`) the events may be handled in another order than the statuses were set.

### Demo (`common/demo.py`, `demo_views.py`)

`dispatch` and `aiMode` are what the API's process would do; a reset by request
saves and replaces them (`StartSeeding`) and puts back what it saved (`Restore`, in
the `finally` clause). The account appears when the request commits; `create_demo`
has a process of its own and commits as it goes. `EnqueueOther` is the upload of
somebody else in that process.

## 4. Runs

| run | what it shows | bounds and why they are enough |
|---|---|---|
| `job_engine` | with every control and every fault: `CommittedIsPrefix`, `SucceededRanEverything`, `QueuedIsDispatched`, and `JobLifecycle` (`ImplementsLifecycle`) | two workers (two runs overlap), three stale requests (read, overtake, overtake), two stages, one of them retryable, one retry, one fault of any kind; symmetry in workers and requests. All four are proved for all values |
| `job_quiet` | if operators re-queue only when no run is in progress: `SingleRun`, `NeverRedo`, and the liveness of queue, run and cancellation (`JobSettles`) | the same with two requests, no symmetry (liveness). The first two are proved, and of the third what holds without fairness |
| `job_double_run` (violation) | `SingleRun` fails with pause and resume alone | |
| `job_lost` (violation) | `NoJobLost` fails with one lost worker | |
| `pipeline_resume` (violation) | `ResumedRunLacksNothing` fails after one failure and one retry | two runs |
| `meeting_processing` | `OneActiveJob`, `InFlight`, `CompletedRunIsShown`, `MeetingSettles` | two further jobs on a new or a processed meeting, two workers, two versions of the recording: a job, the one that supersedes it, and their overlapping runs; two requests of the jobs API, one after the other, each acting on what it has read at any later time. All but the last are proved for all values, and of the last what holds without fairness |
| `meeting_overtaken` (violation) | `SupersededRunsAreHarmless` fails | the same |
| `capture`, live recording | `CompletedHoldsSent`, `OneMeeting`, `RecordingSettles` | three units, two of them worth a meeting (so recordings below, at and above `MinFinalize`), two pauses. The first two are proved for all values, and of the last what holds without fairness |
| `live_tail` (violation) | `RecordingIsWhole` fails without any fault | two units |
| `capture`, media import | `CancelHolds`, `OneMeetingPerSource`, `CompletedIsProcessed`, `ImportSettles` | two sessions with any duplicate action each (they are alike, so the first is the one whose action comes first in `Place`), two workers, two meetings, and one cancel request, lost worker or repeated delivery; a cancellation and a fault in one behaviour are beyond it. All but the last are proved for all values, where they meet, and of the last what holds without fairness |
| `logout_stale` (violation) | `LogoutBlacklists` fails with an expired access token | one tab, one request, two pairs |
| `knowledge` | what is made of meetings, see below | per component, see below |
| `requests` | what users ask for, see below | per component, see below |

`CHECK_DEADLOCK FALSE` is in every configuration, because every one of these
systems stops when its requests have been served and its jobs have ended.

`MCCapture` composes the two other ways in, which share nothing: a behaviour moves one
of them. `MCKnowledge` and `MCRequests` compose components of which none reads back what
another writes except by an action of its own for that write, enabled at any time
(`Edit`, `Reverse`, `DeleteSpeakers`, `WorkspaceChanges`, `Analyse`, `JobEnds`). A
behaviour of the whole is then an interleaving of
theirs and each property speaks of one component, so a behaviour of the composition
moves the component in `focus` and leaves the others in their initial state: TLC
checks every component with one set of bounds, without their product. Every property
of the two runs is proved for all values (section 5).

`knowledge`:

| component | properties | bounds |
|---|---|---|
| `KnowledgeIndex` | `IndexAudit` (rows, versions and events account for each other), `TimeTravel` (the index as of an instant is what a call saw then), `CountsSettle` | two threads, two entities of two texts or absent, three changes, three calls |
| `Consensus` | `EvolutionIsTrue` (the timeline is that of the positions) | two decisions of two meetings, confidences on both sides of the threshold's step, two requests, three computations |
| `VoiceIdentity` | `ProfilesFollowLinks` | two speakers, three identities (a merge, a split), two requests at once, four in all, and any deletions of speakers |
| `SpeakerScoring` | `ScoresMeanWhatTheySay` | seven slots: segments below, at and above the shortest, one slot of silence; every labelling |
| `Migrations` | `SchemaHolds` | all 31 files in every order; a row with one version and with two. Nothing in it is a bound: the check is exhaustive |
| `MeetingPipeline` | `TranscriptIsWhole`, `AnalysisIsOfTranscript` | all fifteen stages and all configurations; four runs: one stores the transcript, one the analysis, one repeats, one is re-queued |
| `VersionedRows` | `ImplementsChain` | four writers at once |
| `Executive` | `DashboardIsOneWrite` | two refreshes at once, three in all, two changes; what raises the alert also calls for the recommendation |

`requests`:

| component | properties | bounds |
|---|---|---|
| `Suggestions` | `SuggestedOnce`, `ApprovalIsTraced` | two job threads, two reviews, two items of which one is a task, a task of the user, a second analysis; the mode that approves by itself, since each behaviour of the other two is one of its behaviours with other scores |
| `AgentPlanner` | `PlanIsWhole` | two plans of two agents, one restart; two plans at once only where one is held for approval, for otherwise they share nothing |
| `AuthSession` | `SessionSurvives`, `LogoutEnds` | two tabs, two calls, three token pairs (a login, two refreshes or a second login), the last of which does not expire, for nothing could replace it; an access token expires while somebody holds or sends it (`ExpiresInUse`); one session is tangled, ended or overtaken, beside others that are not, and one request adrift (`OneInTrouble`) |
| `Accounts` | `LinkWorksOnce` | two links, two resets, one change of password |
| `Reports` | `AloneHeals` | two requests, three reports |
| `Benchmarks` | `RecordingFollowsMeeting` | one recording, two import sessions, one meeting of the user, two jobs that end: together, one after the other, or before their session knows its meeting |
| `Demo` | `ResetLeavesNoTrace` | two requests and the command, two recordings of which one is left pending |
| `Speakers` | `MachineTextKept`, `SpeakersAgree` | two segments, two speakers, two requests at once without a bound on their number, one new transcript; a re-diarization has only the pipeline beside it, for nothing in the code calls it |

Type invariants are in no configuration, for they say nothing of the code that the
properties there do not. They are theorems (section 5), except where a component's
inductive invariant begins with the types of what it speaks of.

Where a property has an exception, the exception is something the code really
does, and the comment on the property names it: a re-queue in the middle of a
run (`QuietRequeue`), a lost send, a retry through the jobs API, the
cancellation of a queued job, a second press of Stop, a missed event, two requests
that overlapped where nothing is locked. What follows from these exceptions is
listed under "hazards" in `PROJECT.json` and in section 6.

### Fairness

- `JobEngine`: the `on_commit` hook runs (`Send`), an idle worker takes
  what the broker holds, and a run goes on (`EngineStep`); a stage ends, since
  Celery has a time limit for the task. No operator has to act and no fault has
  to happen; a fault that strands a job is in the conclusion of the property.
  `JobSettles` is `QueuedIsTakenUp`, `EveryRunEnds` and `CancellationSettles`.
- `MeetingProcessing`: workers claim queued jobs and go on with runs, which is
  what `QueuedIsTakenUp` and `EveryRunEnds` of `JobEngine` say.
- `LiveSession`: the consumer goes on while it has messages or work. Nothing is
  assumed of the user or the connection; `RecordingSettles` begins when the
  socket has closed.
- `MediaImport`: every worker goes on, and an active job ends. Nothing is
  assumed of requests. Creations, cancel requests and faults are finitely many,
  so "settles" is stated as: from some time on.

Only weak fairness is used: none of these steps is enabled and disabled
for ever by the others. The components of `MCKnowledge` and `MCRequests` have
safety properties only: what they do is asked for by a request or a job, and
nothing in the code makes one come.

## 5. Proofs

All theorems hold for every value of the constants, under the assumptions the
modules declare: bounds are naturals, the stage order is not empty, and a value
that stands for nothing (`NoJob`, `NoSession`, `NoAccount`, `Nobody`, "idle") is
none of those it stands beside. Four more are needed by a proof alone: the entities
of a meeting (`KnowledgeIndex`), the slots of a recording (`SpeakerScoring`), the
segments of a transcript (`Speakers`) and the items an analysis can find
(`Suggestions`: a type and a title of bounded length) are finitely many.

In most components a property holds *until* two actors overlap, because nothing in
the code locks between what one reads and what it writes. Their proofs have one
shape: as long as the history variable is false at most one actor is under way, and
what it has read is still so.

`JobEngineProofs`. `TypeInv` (types, and a run inside a stage stands at one)
gives `TypeCorrect`. `Refinement` maps every action to a claim, a queuing, a
settlement or a stutter of `JobLifecycle`; `RunsAreBounded` is proved of the
abstract specification's invariant through that step lemma.
`QueuedStaysDispatched` is an action property that needs only the types.
`CommittedIsPrefix` and `SucceededRanEverything` are not inductive: `RecordInv`
adds that every run's own memory is a prefix too and contains all stages below
the one it stands at, and that what any record holds has been executed; this
is why overlapping runs may overwrite each other's `completed_stages` and still
leave a prefix. `QuietInv` adds, under `QuietRequeue`, that a queued job has no
run, that the one run's memory equals the row's record, and hence `SingleRun`,
`NeverRedo`, `SucceededIsComplete` (`RunsDoNotOverlap`, `CommittedWorkIsKept`,
`CompletedJobsAreComplete`; the last, like `RunsAreBounded`, is in no run).
Four theorems say what `JobSettles` rests on beside fairness. A job waits for a
message nobody sends only after a lost send (`QueuedJobsAreDelivered`). `StepsLeft`
is how far a run is from its end, by stage, attempt and step: it is at most all
stages with all their retries and two (`RunsAreBoundedInLength`), and every step of
a run lowers it or ends the run, while nobody else's step raises it
(`RunsComeToAnEnd`). A cancellation is left without a run to see it by a lost
worker, or by a request that writes what it read after the run has ended
(`CancellationsAreAnswered`).

`VersionsProofs`. Of `VersionedRows`, `CurrentIsNewest` needs to know why a version that the
constraint lets through is the next one: all versions below the one chosen are
taken (`Grounded`, with `NoGaps` and `NoDuplicates` of the rows), and then
every row was there when the writer cleared `is_current` (`Covered`). The lemma
`CreateIsNext` concludes that the new row is the only current one; it carries
both `OneCurrentRow` (`CurrentIsNewest`, which the refinement implies and no run
repeats) and the refinement `VersionsFormAChain`. Of `KnowledgeIndex`, `IndexInv`
says how stale a call can be when it writes: its plan names versions its chains
have, for they only grow, and its number is at most one above the newest. The two
uniqueness constraints turn that into exactness, and `AuditIsTrue` and
`CountsAreRight` follow. `TravelInv` holds while no two calls have overlapped:
everything in the index is older than the call in progress, and its plan is still
what differs from what it saw (`TimeTravelHolds`). Types: `RowsTypeCorrect`,
`IndexTypeCorrect`.

`MeetingProcessingProofs`. `OneActiveJob` and `InFlight` are inductive with the
types and `Busy` (a worker that is not idle is in a run of some job):
an operation that creates a job finds none active or has just cancelled them
all; a claim takes the queued job into a run, and a run takes the meeting out of
QUEUED and RUNNING when it publishes its end (`LockHolds`, `RunIsInFlight`,
`TypeCorrect`). `CompletedRunIsShown` is about a meeting to which nothing has
happened that it excepts: then one job at most is at work (`Alone`), none is queued
behind it (`Lone`), whatever late cancellations have made of the rows, and what its
run has stored is what the meeting shows (`Shown`): `CompletedRunShows`.
`RunIsInFlight` is also what `MeetingSettles` rests on without fairness: a meeting
under way has a job to be claimed or a run to go on, unless its queued job was
cancelled.

`LiveSessionProofs`. What the browser has sent is partly in the file and partly in
the queue, so the invariant has a function along the queue: the units that will be
in the file when the first i messages have been handled. It starts at the file, ends
at what was sent unless messages were lost, and has reached what the user asked for
at each "stop" and each "close" (`Levels`); when the consumer takes one of these the
file has that much (`Enough`): `MeetingHoldsSent`. With one press of Stop at most,
nothing but audio and the close follows a stop (`Ends`), so that no message restarts
a session at its end (`Quiet`), whose status tells how many meetings there are
(`Uploaded`): `OneMeetingAtMost`, `LiveTypeCorrect`. `RecordingsSettleAtRest`: once
the socket has closed and the consumer has handled what had arrived, the session is
at its end and what is worth a meeting has one, because a connection that has ended
leaves a close in the queue or none to come (`Closes`) and the consumer leaves
nothing recording behind it (`AtEnd`, `Kept`).

`MediaImportProofs`. While nobody has asked to keep both copies and no two runs have
created at once, a run about to create a meeting is the only one and finds none
(`OneCreator`, `Chosen`): `SourceHasOneMeeting`. No statement writes the link of a
session without its status, and no meeting loses what its jobs have done
(`CompletedMeansProcessed`). `CancellationHolds` is an action property and needs
only the types (`ImportTypeCorrect`). `ImportsArePursued`: an import under way has a
message on the way, a worker that runs it or an active job that will end it
(`NoneForgotten`), outside the exceptions that `ImportSettles` names.

`AccountsProofs`. `LinkWorksOnce` is an action property, and what makes it true is
in the past: that a link was spent, or replaced while it was open, must mean that
its token is not open any more (`SpentIsClosed`, `ReplacedIsClosed`). The first
needs that a reset about to set the password holds the row of an open token
(`Holding`, `HeldIsOpen`), the second that a request for a link which holds its
rows has all those it saw, or found them closed (`Covered`); and no token opens
opens twice, because a link is opened only by the request of its name (`Fresh`,
`Known`). `LinksWorkOnce`, `AccountsTypeCorrect`. Of the browser session,
`SessionsSurvive` rests on one refresh in flight per tab (`OneFlight`), whose answer
is new to everybody (`Arriving`): a tab whose session nobody else uses (`OneTab`)
holds a token that works, or what spent it is still under way (`StillGood`); and what
is persisted, or adrift, of a session that is not tangled spends nothing that its tab
holds (`Kept`, `AdriftRight`). `LogoutsEnd`: until a session is logged out, each of
its pairs is spent or somebody can still spend it (`HeldPair`), unless nobody holds it
any more (`Unheld`), so that a logout no refresh crosses names the one pair left
(`LogoutRight`); once it is over, nobody holds it, has it stored or waits for it
(`Over`). Types: `AuthTypeCorrect`.

`KnowledgeProofs`. The pipeline's invariant says what a run keeps in its local
variables (`OwnWork`, `OwnResults`) and what its completed stages have left
(`RowInv`); that no run reads what a skipped stage would have provided makes
`TranscriptStoredWhole` and `AnalysisMatchesTranscript` true after any resumption.
`TimelineIsTrue`: a computation that overlaps no other replaces the row it found
(`Known`, `Alone`). `ProfilesAreRight`: a voice request that has met nobody has
read what is there (`RequestOK`), and one that met another, or a deletion, leaves
what it touches in `stale`. `OneWriteOnDashboard` needs of the rows only that
they have their columns, for it compares what one action writes. `ScoresAreTrue`
counts slots: a part of a finite set with as many elements is all of it, and as many
labels as speakers they cover are one for each (`Parts`, `DistinctImages`).
`SchemaStands` has no constant to range over: its value is the reason it gives for
what TLC enumerates. What is applied contains what it depends on (`Closed`), the
tables and keys are those of the applied files, and the table a key refers to is
created by a file that the key's file is built on. Types: `PipelineTypeCorrect`.

`WorkspaceProofs`. `MachineTextIsKept`: not only the rows keep the machine's text,
but so does every row a request is about to write, however long ago it was read
(`KeepsText`). `CopiesAgree`: what the only request under way read is still so when
it writes (`ReadNow`). `RecordingsFollow`: where no two jobs of a meeting
ended together, the one event there may be is that of the last (`EventRight`), and
once it was handled the recording is linked unless the session is `missed`.
`ResetsLeaveNoTrace`: a reset that crossed no other has the process to itself
(`InItsMode`) and remembers it as it was (`PutBack`). `AloneRequestsHeal`: a report
that met no other request is alone in flight and holds every row still shown
(`AloneIsRight`). `SuggestionsAreNotRepeated`: a materialization that crossed no
other holds nothing that has been suggested (`Uncrossed`). `ApprovalsAreTraced`:
what a review read of a suggestion that is not contested is still so when it commits
(`StillSo`), so an approval that finds it open makes its first record
(`SingleRecord`). The invariant of the agents is a conjunction over plans (`PlanInv`), kept
for the other plans by one lemma (`Others`), since only an approval and a restart
touch two. A plan that merges, saves or is over has no thread at work (`Waited`),
so what its answer was built from stays as it was (`Answer`): `AnswersAreWhole`.
`Gate` and `Untouched` give `ApprovalComesFirst` (`HeldRunsNothing`, proved and in
no run): a plan that is held has run nothing, and a plan that an approval
started answers one that is held and approved. Types: `PlannerTypeCorrect`,
`SpeakersTypeCorrect`, `DemoTypeCorrect`.

Only model-checked: the four liveness properties (`JobSettles`, `MeetingSettles`,
`RecordingSettles`, `ImportSettles`), because the prover has neither ENABLED nor
fairness. Their safety halves are the theorems above, so that what is left to
fairness, and to TLC's bounds, is that the steps which are there get taken.

## 6. Where the code and its documents disagree

Each is the counterexample of a run; `PROJECT.json` quotes the lines.

- `job_double_run`: "preventing double-runs" (`jobs/services.py`). Pause and
  resume of a running job put a second worker into it: `acquire` tests the
  status, and `locked_by` is never read.
- `job_lost`: "acks_late + reject_on_worker_lost prevent loss"
  (`docs/PRODUCTION_READINESS.md`). The returned message finds RUNNING and is
  dropped; the job stays RUNNING for good.
- `pipeline_resume`: "resumes idempotently from completed stages"
  (`pipeline/engine.py`). What the completed stages left in `ctx.shared` is
  gone, and the retried run fails at the same stage each time.
- `meeting_overtaken`: "a replacement version supersedes any in-flight run"
  (`uploads.py`). The superseded run is not stopped and overwrites the new
  transcript.
- `live_tail`: "Your recording is safe" (the recording page). "stop" overtakes
  the recorder's last data event; up to four seconds never reach the meeting.
- `logout_stale`: "refresh tokens are **blacklisted on logout**" (`docs/SECURITY.md`).
  A logout sent with an expired access token is refused, refreshed for and sent again
  with the token it named at first, which the refresh has spent: the new pair lives on.

Met while modelling, where no document promises otherwise (each is a behaviour
that a property excepts by name, or a state the module reaches):

*Jobs and meetings.* A run of an import overwrites CANCELLED with its next status;
an import whose job ends before PROCESSING is stored, or is canceled, or that was
told to skip a duplicate found by its checksum (that meeting's job may be long
over) stays in PROCESSING; a redelivered import finds the meeting its first
delivery made and fails as a duplicate of itself; cancelling a queued job leaves
its meeting QUEUED, and reprocessing it is refused (`jobs/models.py:147`); a
cancellation that read RUNNING leaves a job that has ended meanwhile in
CANCELLATION_REQUESTED, an active status that nobody ends: reprocess and regenerate
are refused until a request supersedes it, and beside the job that has superseded
its own there are two active ones (`jobs/models.py:149`);
regenerating the summary completes a meeting whose new recording has failed
(`subscribers.py:57`); after a server crash a live session stays RECORDING or
FINALIZING, for nothing calls `open_sessions_for`. A recording that is too long is
refused after its bytes are in storage, and the rollback leaves the file
(`uploads.py:313`).

*Transcripts and speakers.* An edit saves the label it read, so one that overlaps a
rename restores the old name; a rename of the target during a merge leaves the old
name on what was moved; overlapping merges lose counts and aliases; a merge into a
speaker that is itself being merged away leaves its segments without a speaker; a
re-diarization that ends after the transcript was stored anew deletes the new
speakers. Restoring a segment restores neither a typed label nor the transcript's
`is_edited`. A name of more than 100 characters fits the speaker but not its
segments (`models.py`: 120 and 100), so renaming to it fails.

*Voice identities.* `recompute` saves the whole row: it brings back a merged
identity and undoes a confirmation made meanwhile; relinking leaves the old
identity's profile as it was; deleting one leaves its speakers linked to it. Merging
two speakers of a meeting, transcribing it anew or re-diarizing it deletes linked
speakers, and the identity keeps their embedding, hours and meetings until something
recomputes it.

*Knowledge.* An entity that is archived and appears again is planned as version 1,
which the unique constraint refuses: from then on indexing the meeting fails. A
resolved conflict that returns stays RESOLVED while an acknowledged one becomes
OPEN; two first computations both record the first position. Snapshot versions are
not monotonic where refreshes overlap, the health beside a knowledge version may be
older than it, and refreshes open acknowledged and dismissed alerts again.

*Suggestions, reports, agents.* Two jobs of one meeting that end together suggest
everything twice; overlapping reviews can make two records of one suggestion.
Overlapping requests can leave two current reports of one version until one runs
alone. A planner's timeout still waits for its threads; an exception leaves a plan
RUNNING for good; an approval makes a new plan, and the held one can be approved
again.

*Accounts and sessions.* Two requests for a link at once leave two valid links; a
reset does not close the other open ones; a change of password overwrites a reset
that finished meanwhile. A refresh in flight at the logout puts its tokens back; a
logout that fails clears the store all the same and leaves the token good
(`useAuth.ts:46`); a page that is loaded again while it refreshes reads back the token
it is spending, and its session is lost with the next refresh; tabs do not learn of
each other's rotations.

*Benchmarks, demo, schema.* A failed import leaves its recording IMPORTING, and so
does an import started again after the link; the command's session may land before
the recording knows it. A job that ends before its session stores the meeting
(`ingest/service.py:169`) is missed too, and of two jobs that end together the
recording may show the first. While a demo is seeded, for twenty minutes or more, jobs of
all others in that process are stored and never sent, and with eager tasks their
suggestions are approved by the demo's settings; after two overlapping resets that
stays so, because the second saved what the first had put there. By the API the
seeding is one transaction, contrary to its own docstring (`demo.py`, "NOT wrapped
in a single transaction"). `knowledge` 0002 cannot be taken back once an entity has
two versions.

## 7. Not modelled

What stages, providers and models compute (speech recognition, language models,
ffmpeg, scoring of free text, suggested names) is a success, a failure or a choice
here. Progress, logs, error texts, serializers, permissions and pages decide
nothing that is modelled. Further:

- the collaboration engine of the agents runs in one thread and one transaction
  and shares nothing; a turn of the chat is one transaction (one that cites
  segments replaced meanwhile fails at its commit and is lost whole);
- knowledge reports, search and insights only read;
- upload sessions, their validation and storage, and the preview of a live
  recording touch no state that another component reads back;
- registration, profile, tags, favourites and the like are single writes;
- provider adapters, storage, health probes, prompts and demo data hold no state.

`PROJECT.json` lists each part with its reason.

Abstractions a reader should know of:

- the database gives READ COMMITTED (PostgreSQL's default) and `save(update_fields=...)` writes only its
  columns; a transaction other than a version write is one step from its first
  write to its commit;
- event subscribers run in the process of the publisher, in the order of
  registration, so publishing and `mstatus` are one step;
- in `MeetingProcessing` several stages are one step where no other actor can
  tell them apart; broker faults, pause and re-queue are in `JobEngine` only;
- in `MediaImport` a job that supersedes another is the same activity of the
  meeting, and a second end of the superseded run is in `MeetingProcessing`;
- in `Speakers`, `Suggestions`, `Accounts`, `Reports` and `Demo` a row that a
  transaction has changed is locked until it ends, and a statement that meets the
  lock waits and then sees the new row; a deadlock ends as a failed request;
- `Speakers` takes the machine's text of a segment to be non-empty: `edit_segment`
  tells by an empty `original_text` that nothing was kept yet;
- in `LiveSession` the user starts one recording per socket, which is what the
  hook allows.
