\* Two of everyone that can interfere; three pairs of tokens, three reports,
\* two demo recordings, a transcript of two segments and two speakers.
SPECIFICATION Spec
CONSTANTS
    Items = {i1, i2}
    TaskItems = {i1}
    Workers = {a, b}
    Reviewers = {x, y}
    MaxAnalyses = 1
    MaxTasks = 1
    MaxRuns = 2
    MaxReviews = 2
    Plans = {a, b}
    Agents = {x, y}
    MaxRestarts = 1
    Tabs = {a, b}
    Calls = {x, y}
    MaxPairs = 3
    Links = {a, b}
    Resets = {x, y}
    Changes = {p1}
    NoLink = NoLink
    Writers = {a, b}
    MaxReports = 3
    Recordings = {q1}
    Sessions = {a, b}
    OwnMeetings = {u1}
    NoMeeting = NoMeeting
    MaxJobs = 2
    DemoResets = {d1, d2}
    Commands = {command}
    Uploads = {other}
    DemoRecordings = 2
    KeptPending = 1
    NoAccount = NoAccount
    Places = {x, y}
    SpeakerRows = {r1, r2}
    Names = {n1}
    Typings = {typed1}
    Edits = {a, b}
    Machine = Machine
    Nobody = Nobody
    MaxStores = 1
SYMMETRY AlikeRequests
INVARIANTS
    SuggestedOnce
    ApprovalIsTraced
    PlanIsWhole
    SessionSurvives
    LogoutEnds
    RecordingFollowsMeeting
    ResetLeavesNoTrace
    MachineTextKept
    SpeakersAgree
PROPERTIES
    LinkWorksOnce
    AloneHeals
CHECK_DEADLOCK FALSE
