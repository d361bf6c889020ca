----------------------------- MODULE Benchmarks -----------------------------
(***************************************************************************)
(* Benchmark recordings and the meetings they are scored on.  A public     *)
(* recording is imported: an import session, which makes a meeting of its  *)
(* own when it lands, and the recording follows the job events of that     *)
(* meeting.  A recording of the user points at a meeting that exists.  A   *)
(* web request imports in one transaction; the management command commits  *)
(* the session, which workers then run, before it saves the recording.     *)
(* The session uploads its meeting, whose job is then on its way, before   *)
(* it stores that meeting on its own row; a message of the session that is *)
(* delivered twice is MediaImport's.                                       *)
(***************************************************************************)
EXTENDS Naturals

CONSTANTS Recordings,
          Sessions,     \* import sessions; the meeting one makes has its name
          OwnMeetings,  \* meetings the user uploaded
          NoMeeting,
          MaxJobs       \* bound on the jobs that end

ASSUME BenchmarksAssumption ==
    /\ MaxJobs \in Nat
    /\ Sessions \intersect OwnMeetings = {}
    /\ NoMeeting \notin Sessions \union OwnMeetings
    /\ "idle" \notin Sessions \union OwnMeetings   \* a step that is none

VARIABLES
    recording,          \* status, session and meeting of each row, and how it came
    importSession,      \* "unused", "running", "uploaded" (its meeting is there),
                        \* "landed" (and stored on it), "stranded" (never stored), "failed"
    outcome,            \* a meeting's processing_status: how a job ended, or "none"
    jobs,               \* how many jobs have ended
    unread,             \* the events of ended jobs that are not handled yet
    ready,              \* history: meetings that completed a job at some time
    missed,             \* history: meetings whose last event found no session with them
    racing              \* history: meetings whose last two jobs ended together

meetingVars == <<outcome, jobs, unread, ready, missed, racing>>
benchmarkVars == <<recording, importSession, meetingVars>>

Meetings == Sessions \union OwnMeetings

BenchmarksInit ==
    /\ recording = [r \in Recordings |->
            [status |-> "absent", session |-> NoMeeting, meeting |-> NoMeeting,
             plain |-> FALSE, step |-> "idle", saw |-> "none"]]
    /\ importSession = [s \in Sessions |-> "unused"]
    /\ outcome = [m \in Meetings |-> "none"]
    /\ jobs = 0
    /\ unread = {} /\ ready = {} /\ missed = {} /\ racing = {}

Idle(r) == recording[r].step = "idle"

-----------------------------------------------------------------------------
\* imports.py

\* get_or_create: a second seeding finds the row and leaves it alone.
Seed(r) ==
    /\ recording[r].status = "absent"
    /\ Idle(r)
    /\ recording' = [recording EXCEPT ![r].status = "pending"]
    /\ UNCHANGED <<importSession, meetingVars>>

Imports(r) == Idle(r) /\ recording[r].status # "absent"

\* No URL, or create_import raises.
RefuseImport(r) ==
    /\ Imports(r)
    /\ \E status \in {"skipped", "failed"} :
            recording' = [recording EXCEPT ![r].status = status]
    /\ UNCHANGED <<importSession, meetingVars>>

\* "plain" marks, for the property, a row whose only import is of this kind.
Importing(r, s, plain) == [recording[r] EXCEPT !.status = "importing", !.session = s,
                                               !.step = "idle", !.plain = plain]

Unlinked(r) == recording[r].session = NoMeeting /\ recording[r].meeting = NoMeeting

ImportRecording(r, s) ==
    /\ Imports(r)
    /\ importSession[s] = "unused"
    /\ importSession' = [importSession EXCEPT ![s] = "running"]
    /\ recording' = [recording EXCEPT ![r] = Importing(r, s, Unlinked(r))]
    /\ UNCHANGED meetingVars

\* seed_public_benchmark --import: the session runs before the row is saved.
CommandCreatesImport(r, s) ==
    /\ Imports(r)
    /\ importSession[s] = "unused"
    /\ importSession' = [importSession EXCEPT ![s] = "running"]
    /\ recording' = [recording EXCEPT ![r].step = s]
    /\ UNCHANGED meetingVars

CommandSavesRecording(r) ==
    /\ recording[r].step \in Sessions
    /\ recording' = [recording EXCEPT ![r] = Importing(r, recording[r].step, FALSE)]
    /\ UNCHANGED <<importSession, meetingVars>>

\* create_user_recording_from_meeting
ReadMeeting(r, m) ==
    /\ Idle(r)
    /\ recording[r].status = "absent"
    /\ recording' = [recording EXCEPT ![r].step = m, ![r].saw = outcome[m]]
    /\ UNCHANGED <<importSession, meetingVars>>

StatusOfMeeting(saw) == IF saw = "completed" THEN "ready" ELSE "processing"
CreateFromMeeting(r) ==
    /\ recording[r].step \in OwnMeetings
    /\ recording' = [recording EXCEPT ![r].status = StatusOfMeeting(recording[r].saw),
                                      ![r].meeting = recording[r].step,
                                      ![r].step = "idle"]
    /\ UNCHANGED <<importSession, meetingVars>>

-----------------------------------------------------------------------------
\* The import and the job engine, as seen from here.

\* run_import: create_upload queues the first job of the meeting, and only then is
\* the meeting stored on the session.  What raises before or between fails it.
SessionSteps(s) ==
    /\ \E step \in {<<"running", "uploaded">>, <<"running", "failed">>,
                    <<"uploaded", "landed">>, <<"uploaded", "stranded">>} :
            /\ importSession[s] = step[1]
            /\ importSession' = [importSession EXCEPT ![s] = step[2]]
    /\ UNCHANGED <<recording, meetingVars>>

Uploaded(m) == m \in Sessions => importSession[m] \in {"uploaded", "landed", "stranded"}
EventsOf(m) == {e \in unread : e.meeting = m}

\* A job publishes its end in its own thread: the subscriber of the meetings sets
\* the status, and that of the recordings comes later.  Jobs may end together.
JobEnds(m) ==
    /\ Uploaded(m)
    /\ jobs < MaxJobs
    /\ jobs' = jobs + 1
    /\ \E how \in {"completed", "failed"} :
            /\ outcome' = [outcome EXCEPT ![m] = how]
            /\ ready' = IF how = "completed" THEN ready \union {m} ELSE ready
            /\ unread' = unread \union {[meeting |-> m, job |-> jobs', how |-> how]}
    /\ racing' = IF EventsOf(m) = {} THEN racing \ {m} ELSE racing \union {m}
    /\ UNCHANGED <<recording, importSession, missed>>

\* Another job is queued or started, or one is cancelled: of that no recording hears.
JobStarts(m) ==
    /\ outcome[m] # "none"
    /\ outcome' = [outcome EXCEPT ![m] = "none"]
    /\ UNCHANGED <<recording, importSession, jobs, unread, ready, missed, racing>>

-----------------------------------------------------------------------------
\* subscribers.py: _update_recordings for an event of meeting m.

LinkedMeetingNever(r, m) == recording[r].meeting

\* The meeting a recording has after the first UPDATE, which fills in the
\* meeting of its session where it has none.
LinkedMeeting(r, m) ==
    IF recording[r].session = m /\ importSession[m] = "landed" /\ recording[r].meeting = NoMeeting
    THEN m ELSE recording[r].meeting
StatusOfEvent(how) == IF how = "completed" THEN "ready" ELSE "failed"

UpdateRecordings(e) ==
    /\ e \in unread
    /\ recording' = [r \in Recordings |->
            IF LinkedMeeting(r, e.meeting) = e.meeting /\ recording[r].status # "absent"
            THEN [recording[r] EXCEPT !.meeting = e.meeting, !.status = StatusOfEvent(e.how)]
            ELSE recording[r]]
    /\ unread' = unread \ {e}
    /\ missed' = IF e.meeting \in Sessions /\ importSession[e.meeting] # "landed"
                 THEN missed \union {e.meeting} ELSE missed \ {e.meeting}
    /\ UNCHANGED <<importSession, outcome, jobs, ready, racing>>

\* The subscriber raises, or the worker is lost before it: nobody handles the event.
MissEvent(e) ==
    /\ e \in unread
    /\ unread' = unread \ {e}
    /\ missed' = missed \union {e.meeting}
    /\ UNCHANGED <<recording, importSession, outcome, jobs, ready, racing>>

BenchmarksNext ==
    \/ \E r \in Recordings : Seed(r) \/ RefuseImport(r) \/ CommandSavesRecording(r) \/ CreateFromMeeting(r)
    \/ \E r \in Recordings, s \in Sessions : ImportRecording(r, s) \/ CommandCreatesImport(r, s)
    \/ \E r \in Recordings, m \in OwnMeetings : ReadMeeting(r, m)
    \/ \E s \in Sessions : SessionSteps(s)
    \/ \E m \in Meetings : JobEnds(m) \/ JobStarts(m)
    \/ \E e \in unread : UpdateRecordings(e) \/ MissEvent(e)

BenchmarksSpec == BenchmarksInit /\ [][BenchmarksNext]_benchmarkVars

-----------------------------------------------------------------------------
\* A recording counts as ready only on a meeting that has completed a job; and a
\* recording imported once, by a web request, is linked to the meeting of its
\* session and tells how that meeting's last job ended (_update_recordings).  That
\* is so once its event is handled, unless the event came before the session knew
\* its meeting or was lost (missed), two jobs of the meeting ended together
\* (racing), or a refused second import overwrote the status.
RecordingFollowsMeeting ==
    /\ \A r \in Recordings : recording[r].status = "ready" => recording[r].meeting \in ready
    /\ \A r \in Recordings :
            LET m == recording[r].session IN
            /\ recording[r].plain /\ Idle(r)
            /\ outcome[m] # "none" /\ EventsOf(m) = {} /\ m \notin missed \union racing
            => /\ recording[r].meeting = m
               /\ recording[r].status \in {StatusOfEvent(outcome[m]), "skipped", "failed"}
=============================================================================
