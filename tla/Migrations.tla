----------------------------- MODULE Migrations -----------------------------
(***************************************************************************)
(* The schema of the database while it is migrated.  Each migration file   *)
(* runs in a transaction of its own (manage.py migrate, DEPLOYMENT.md      *)
(* 66-69), once the migrations it names in "dependencies" have run, and a  *)
(* deployment may stop between two of them, migrate one application only,  *)
(* or take an application back.  A migration is a record: what it depends  *)
(* on, the tables it creates, and the foreign keys it creates with them or *)
(* adds to tables that exist, each as a pair of a table and the one its    *)
(* key refers to.  Columns without a foreign key and indexes are left out: *)
(* they never depend on another migration than the one that created their  *)
(* table.                                                                  *)
(***************************************************************************)
EXTENDS Naturals

CONSTANT MaxVersions        \* versions of a knowledge row that are told apart

ASSUME MigrationsAssumption == MaxVersions \in Nat \ {0}

VARIABLES
    applied,                \* names of the migrations that have run
    tables,                 \* the tables of the database
    foreignKeys,            \* pairs <<table, table its key refers to>>
    versions                \* rows of the entity with the most versions

migrationVars == <<applied, tables, foreignKeys, versions>>

\* Every table but that of the users has created_by and updated_by of AuditModel.
Audited(names) == (names \ {"User"}) \X {"User"}

\* A migration; the keys of AuditModel come with the tables it creates.
File(name, after, creates, keys) ==
    [name |-> name, after |-> after, creates |-> creates, keys |-> Audited(creates) \union keys]

Accounts1 == File("accounts_1", {}, {"User", "PasswordResetToken"}, {})

Jobs1 == File("jobs_1", {"accounts_1"}, {"BackgroundJob"}, {})
Jobs2 == File("jobs_2", {"jobs_1", "accounts_1"}, {"JobLog"}, {<<"JobLog", "BackgroundJob">>})

Agents1 == File("agents_1", {"accounts_1"}, {"AgentRun", "AgentRunStep"},
    {<<"AgentRunStep", "AgentRun">>})
Agents2 == File("agents_2", {"agents_1"}, {}, {})
Agents3 == File("agents_3", {"agents_2", "accounts_1"}, {"PlannerRun", "PlannerStep"},
    {"PlannerStep", "AgentRun"} \X {"PlannerRun"})
Agents4 == File("agents_4", {"agents_3", "accounts_1"}, {"CollaborationRun", "CollaborationStep"},
    {<<"CollaborationRun", "PlannerRun">>}
        \union ({"CollaborationStep"} \X {"AgentRun", "CollaborationRun"}))

\* The tables of the first file that refer to a meeting, by what they hold.
ChatTables == {"ChatMessage", "AIOutput"}
FileTables == {"MeetingFile"}
RunTables == {"MeetingJob", "ProcessingLog"}
UploadTables == {"TranscriptSegment", "UploadSession"}

Meetings1 == File("meetings_1", {"jobs_1", "accounts_1"},
    {"Meeting", "MeetingEvent", "MediaMetadata"}
        \union ChatTables \union FileTables \union RunTables \union UploadTables,
    (({"MeetingEvent"} \union ChatTables \union FileTables \union RunTables \union UploadTables)
            \X {"Meeting"})
        \union (RunTables \X {"BackgroundJob"}) \union {<<"MediaMetadata", "MeetingFile">>})
Meetings2 == File("meetings_2", {"meetings_1", "accounts_1"}, {"Transcript"},
    {"Transcript"} \X {"Meeting", "MeetingFile"})
Meetings3 == File("meetings_3", {"meetings_2", "accounts_1"}, {"AIAnalysis"},
    {"AIAnalysis"} \X {"Meeting", "MeetingFile"})
Meetings4 == File("meetings_4", {"meetings_3", "accounts_1"},
    {"MessageCitation", "ChatConversation"},
    ({"MessageCitation"} \X {"ChatMessage", "TranscriptSegment"})
        \union {<<"ChatConversation", "Meeting">>, <<"ChatMessage", "ChatConversation">>})
Meetings5 == File("meetings_5", {"meetings_4"}, {}, {})
Meetings6Alone == File("meetings_6", {"meetings_5"}, {}, {<<"Meeting", "Project">>})
Meetings6 == File("meetings_6", {"meetings_5", "workspace_1"}, {}, {<<"Meeting", "Project">>})
Meetings7 == File("meetings_7", {"meetings_6"}, {}, {})
Meetings8 == File("meetings_8", {"meetings_7"}, {}, {})
Meetings9 == File("meetings_9", {"meetings_8", "accounts_1"},
    {"LiveMeetingSession", "LiveTranscriptSegment"},
    {<<"LiveMeetingSession", "Meeting">>, <<"LiveTranscriptSegment", "LiveMeetingSession">>})
Meetings10 == File("meetings_10", {"meetings_9", "accounts_1"}, {"MediaImportSession"},
    {<<"MediaImportSession", "Meeting">>})
Meetings11 == File("meetings_11", {"meetings_10", "accounts_1"}, {"Speaker"},
    {<<"Speaker", "Meeting">>, <<"TranscriptSegment", "Speaker">>})
Meetings12 == File("meetings_12", {"meetings_11", "accounts_1"},
    {"SpeakerQualitySignal", "SpeakerEmbedding"},
    {"SpeakerQualitySignal", "SpeakerEmbedding"} \X {"Speaker"})
Meetings13 == File("meetings_13", {"meetings_12", "workspace_4"}, {},
    {<<"Speaker", "VoicePerson">>})

OfProject == {"Meeting", "Project"}

ActionTables == {"Issue", "FollowUp"}
OutcomeTables == {"Decision", "Risk"}
TaskTables == {"Task"}
ReportTables == {"Report"}

Workspace1 == File("workspace_1", {"meetings_5", "accounts_1"},
    {"Project", "Note", "Milestone", "Notification"}
        \union ActionTables \union OutcomeTables \union TaskTables \union ReportTables,
    (({"Note"} \union ActionTables \union OutcomeTables \union TaskTables \union ReportTables)
            \X OfProject)
        \union (TaskTables \X {"Milestone"}) \union {<<"Milestone", "Project">>}
        \union ({"Notification"} \X {"Meeting", "Task"}))

\* The tables of AISourcedModel.
Sourced == {"Task", "Issue", "FollowUp", "Decision", "Risk"}

Workspace2 == File("workspace_2", {"workspace_1", "meetings_6", "accounts_1"},
    {"AISuggestion", "Workspace"},
    (Sourced \X {"AISuggestion"})
        \union {<<"AISuggestion", "Meeting">>, <<"Project", "Workspace">>})
Workspace3 == File("workspace_3", {"workspace_2", "meetings_6", "accounts_1"},
    {"TaskAttachment", "TaskComment", "ActivityLog"},
    ({"TaskAttachment", "TaskComment"} \X {"Task"}) \union {<<"ActivityLog", "Meeting">>})
Workspace4 == File("workspace_4", {"workspace_3", "accounts_1"}, {"VoicePerson", "VoicePersonEvent"},
    {<<"VoicePerson", "Workspace">>, <<"VoicePersonEvent", "VoicePerson">>})

Knowledge1 == File("knowledge_1", {"meetings_6", "workspace_3", "accounts_1"}, {"KnowledgeItem"},
    {"KnowledgeItem"} \X OfProject)
Knowledge2 == File("knowledge_2", {"knowledge_1", "meetings_6", "workspace_3", "accounts_1"},
    {"EmbeddingVersion", "KnowledgeEvent", "KnowledgeRetrieval", "KnowledgeVersion"},
    ({"KnowledgeEvent"} \X {"Meeting", "KnowledgeItem"})
        \union ({"KnowledgeRetrieval", "KnowledgeVersion", "KnowledgeItem"} \X {"EmbeddingVersion"})
        \union {<<"KnowledgeItem", "Workspace">>})
Knowledge3 == File("knowledge_3", {"knowledge_2", "meetings_6", "workspace_3", "accounts_1"},
    {"KnowledgeConsensus", "KnowledgeConflict", "KnowledgeConsensusRevision"},
    ({"KnowledgeConflict"} \X {"Meeting", "KnowledgeConsensus", "Decision"})
        \union {<<"KnowledgeConsensusRevision", "KnowledgeConsensus">>})

PointTables == {"ExecutiveMetricSnapshot", "ExecutivePrediction"}
AdviceTables == {"ExecutiveRecommendation", "ExecutiveTrendPoint"}
SnapshotTables == {"OrganizationSnapshot", "ProjectSnapshot"}

Knowledge4 == File("knowledge_4", {"knowledge_3", "workspace_3", "accounts_1"},
    {"ExecutiveAlert", "ExecutiveExplanation"}
        \union PointTables \union AdviceTables \union SnapshotTables,
    {<<"ProjectSnapshot", "Project">>})
Knowledge5 == File("knowledge_5", {"knowledge_4"}, {}, {})
Knowledge6 == File("knowledge_6", {"knowledge_5"}, {}, {})

Benchmarks1 == File("benchmarks_1", {"meetings_12", "accounts_1"},
    {"BenchmarkDataset", "BenchmarkConfig", "BenchmarkRecording", "BenchmarkRun", "BenchmarkResult"},
    ({"BenchmarkRecording"} \X {"Meeting", "BenchmarkDataset", "MediaImportSession"})
        \union {<<"BenchmarkRun", "BenchmarkDataset">>}
        \union ({"BenchmarkResult"} \X {"BenchmarkRecording", "BenchmarkRun"}))

Files == {Accounts1, Jobs1, Jobs2, Agents1, Agents2, Agents3, Agents4,
          Meetings1, Meetings2, Meetings3, Meetings4, Meetings5, Meetings6, Meetings7,
          Meetings8, Meetings9, Meetings10, Meetings11, Meetings12, Meetings13,
          Workspace1, Workspace2, Workspace3, Workspace4,
          Knowledge1, Knowledge2, Knowledge3, Knowledge4, Knowledge5, Knowledge6, Benchmarks1}

Newest == {m.name : m \in Files}

-----------------------------------------------------------------------------
\* The tables and keys that the model classes declare, which is what the code at
\* this commit uses.
Declared(names, keys) == [tables |-> names, keys |-> Audited(names) \union keys]

AccountsModels == Declared({"User", "PasswordResetToken"}, {})
JobsModels == Declared({"BackgroundJob", "JobLog"}, {<<"JobLog", "BackgroundJob">>})
AgentsModels == Declared({"AgentRun", "AgentRunStep"},
    {<<"AgentRun", "PlannerRun">>, <<"AgentRunStep", "AgentRun">>})
PlanModels == Declared({"PlannerRun", "PlannerStep", "CollaborationRun", "CollaborationStep"},
    ({"PlannerStep", "CollaborationRun"} \X {"PlannerRun"})
        \union ({"CollaborationStep"} \X {"CollaborationRun", "AgentRun"}))
MediaModels == Declared(
    {"Meeting", "MeetingFile", "MediaMetadata", "MeetingJob", "UploadSession", "MeetingEvent",
     "LiveMeetingSession", "LiveTranscriptSegment", "MediaImportSession"},
    ({"MeetingFile", "MeetingJob", "UploadSession", "MeetingEvent", "LiveMeetingSession",
      "MediaImportSession"} \X {"Meeting"})
        \union {<<"Meeting", "Project">>, <<"MediaMetadata", "MeetingFile">>,
                <<"MeetingJob", "BackgroundJob">>, <<"LiveTranscriptSegment", "LiveMeetingSession">>})
TranscriptModels == Declared(
    {"Transcript", "Speaker", "SpeakerEmbedding", "SpeakerQualitySignal", "TranscriptSegment"},
    ({"Transcript", "Speaker", "TranscriptSegment"} \X {"Meeting"})
        \union ({"SpeakerEmbedding", "SpeakerQualitySignal", "TranscriptSegment"} \X {"Speaker"})
        \union {<<"Transcript", "MeetingFile">>, <<"Speaker", "VoicePerson">>})
AnalysisModels == Declared(
    {"AIOutput", "ProcessingLog", "AIAnalysis", "ChatConversation", "ChatMessage", "MessageCitation"},
    ({"AIOutput", "ProcessingLog", "AIAnalysis", "ChatConversation", "ChatMessage"} \X {"Meeting"})
        \union {<<"ProcessingLog", "BackgroundJob">>, <<"AIAnalysis", "MeetingFile">>,
                <<"ChatMessage", "ChatConversation">>}
        \union ({"MessageCitation"} \X {"ChatMessage", "TranscriptSegment"}))
PlanningModels == Declared(
    {"Note", "Report", "Workspace", "Project", "Milestone"} \union Sourced,
    (({"Note", "Report"} \union Sourced) \X OfProject) \union (Sourced \X {"AISuggestion"})
        \union {<<"Project", "Workspace">>, <<"Milestone", "Project">>, <<"Task", "Milestone">>})
PeopleModels == Declared(
    {"VoicePerson", "VoicePersonEvent", "Notification", "AISuggestion", "TaskComment",
     "TaskAttachment", "ActivityLog"},
    ({"Notification", "AISuggestion", "ActivityLog"} \X {"Meeting"})
        \union ({"Notification", "TaskComment", "TaskAttachment"} \X {"Task"})
        \union {<<"VoicePerson", "Workspace">>, <<"VoicePersonEvent", "VoicePerson">>})
IndexModels == Declared({"EmbeddingVersion", "KnowledgeVersion", "KnowledgeItem"},
    ({"KnowledgeVersion", "KnowledgeItem"} \X {"EmbeddingVersion"})
        \union ({"KnowledgeItem"} \X (OfProject \union {"Workspace"})))
EventModels == Declared({"KnowledgeEvent", "KnowledgeRetrieval"},
    ({"KnowledgeEvent"} \X {"Meeting", "KnowledgeItem"})
        \union {<<"KnowledgeRetrieval", "EmbeddingVersion">>})
ConsensusModels == Declared(
    {"KnowledgeConsensus", "KnowledgeConsensusRevision", "KnowledgeConflict"},
    {<<"KnowledgeConsensusRevision", "KnowledgeConsensus">>}
        \union ({"KnowledgeConflict"} \X {"Meeting", "KnowledgeConsensus", "Decision"}))
ExecutiveModels == Declared({"OrganizationSnapshot", "ExecutiveRecommendation", "ProjectSnapshot"},
    {<<"ProjectSnapshot", "Project">>})
FigureModels == Declared({"ExecutiveExplanation", "ExecutiveTrendPoint", "ExecutivePrediction",
    "ExecutiveMetricSnapshot", "ExecutiveAlert"}, {})
BenchmarkModels == Declared({"BenchmarkDataset", "BenchmarkConfig", "BenchmarkRecording"},
    {"BenchmarkRecording"} \X {"Meeting", "BenchmarkDataset", "MediaImportSession"})
ScoreModels == Declared({"BenchmarkRun", "BenchmarkResult"},
    {<<"BenchmarkRun", "BenchmarkDataset">>}
        \union ({"BenchmarkResult"} \X {"BenchmarkRecording", "BenchmarkRun"}))

Models == {AccountsModels, JobsModels, AgentsModels, PlanModels, MediaModels, TranscriptModels,
           AnalysisModels, PlanningModels, PeopleModels, IndexModels, EventModels,
           ConsensusModels, ExecutiveModels, FigureModels, BenchmarkModels, ScoreModels}

ModelTables == UNION {c.tables : c \in Models}
ModelKeys == UNION {c.keys : c \in Models}

-----------------------------------------------------------------------------
\* CREATE TABLE and ADD CONSTRAINT fail when the table referred to is missing;
\* the transaction of the file then leaves nothing behind.
Runs(m) == \A k \in m.keys : {k[1], k[2]} \subseteq tables \union m.creates

MigrationsInit ==
    /\ applied = {}
    /\ tables = {}
    /\ foreignKeys = {}
    /\ versions = 1

Apply(m) ==
    /\ m.name \notin applied
    /\ m.after \subseteq applied
    /\ Runs(m)
    /\ applied' = applied \union {m.name}
    /\ tables' = tables \union m.creates
    /\ foreignKeys' = foreignKeys \union m.keys
    /\ UNCHANGED versions

\* Taking knowledge_2 back restores uniq_knowledge_entity, one row for each
\* entity, and fails on a database that has kept a second version of one.
Reversible(m) == m.name = "knowledge_2" => versions = 1

Unapply(m) ==
    /\ m.name \in applied
    /\ \A n \in Files : n.name \in applied => m.name \notin n.after
    /\ Reversible(m)
    /\ applied' = applied \ {m.name}
    /\ tables' = tables \ m.creates
    /\ foreignKeys' = foreignKeys \ m.keys
    /\ versions' = IF m.name = "knowledge_1" THEN 1 ELSE versions

\* The code runs on the schema it was written for and indexes a changed entity.
IndexAgain ==
    /\ applied = Newest
    /\ versions < MaxVersions
    /\ versions' = versions + 1
    /\ UNCHANGED <<applied, tables, foreignKeys>>

MigrationsNext ==
    \/ \E m \in Files : Apply(m)
    \/ \E m \in Files : Unapply(m)
    \/ IndexAgain

MigrationsSpec == MigrationsInit /\ [][MigrationsNext]_migrationVars

-----------------------------------------------------------------------------
\* However far the applications have been migrated, in whatever order and
\* direction, every foreign key has both its tables, the next migration the
\* dependencies allow can run, and with every file applied the schema is the
\* one the model classes declare.
SchemaHolds ==
    /\ \A k \in foreignKeys : {k[1], k[2]} \subseteq tables
    /\ \A m \in Files : m.name \notin applied /\ m.after \subseteq applied => Runs(m)
    /\ applied = Newest => tables = ModelTables /\ foreignKeys = ModelKeys
=============================================================================
