\* Two threads, two entities, two meetings of one topic, four writers of a row,
\* four runs of a job, three refreshes of the dashboard.
SPECIFICATION Spec
CONSTANTS
    Entities = {s1, s2}
    Texts = {t1, t2}
    Absent = Absent
    Indexings = {a, b}
    MaxEdits = 3
    MaxIndexings = 3
    d1 = d1
    d2 = d2
    mm1 = mm1
    mm2 = mm2
    MeetingOfDecision <- TwoMeetings
    Confidences = {60, 63}
    Computing = {a, b}
    MaxComputations = 3
    Speakers = {s1, s2}
    People = {p1, p2, p3}
    VoiceUsers = {a, b}
    MaxVoiceOps = 4
    Slots = {1, 2, 3, 4, 5, 6, 7}
    SegmentAt <- SmallTimeline
    Voices = {v1, v2}
    Silence = Silence
    MaxSpeakers = 2
    MinSegment = 2
    MinSpeech = 3
    MaxVersions = 2
    MaxRuns = 4
    Writers = {a, b, s1, s2}
    Conditions = {overdue}
    Advice = {assign}
    Refreshers = {a, b}
    MaxKnowledge = 1
    MaxChanges = 2
    MaxRefreshes = 3
SYMMETRY Alike
INVARIANTS
    IndexAudit
    TimeTravel
    CountsSettle
    EvolutionIsTrue
    ProfilesFollowLinks
    ScoresMeanWhatTheySay
    SchemaHolds
    TranscriptIsWhole
    AnalysisIsOfTranscript
    DashboardIsOneWrite
PROPERTY ImplementsChain
CHECK_DEADLOCK FALSE
