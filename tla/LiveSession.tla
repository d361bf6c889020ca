---------------------------- MODULE LiveSession ----------------------------
(***************************************************************************)
(* One live recording: the recorder in the browser (useRecorder), the      *)
(* websocket, and the consumer that keeps the session and turns it into a  *)
(* meeting when the user stops or the connection ends.                     *)
(*                                                                         *)
(* The socket delivers in order; the consumer handles one message at a     *)
(* time, so its transcription passes show only as time in which messages   *)
(* wait.  Audio is counted in units, of which the file is what has been    *)
(* appended; bytes_received counts the same.  The live preview is left     *)
(* out.                                                                    *)
(***************************************************************************)
EXTENDS Naturals, Sequences

CONSTANTS
    MaxHeard,    \* bound on the audio of the recording
    MaxPauses,   \* bound on the pauses
    MinFinalize  \* units of audio worth a meeting when the client drops

ASSUME LiveBoundsAssumption == MaxHeard \in Nat /\ MaxPauses \in Nat
ASSUME MinFinalizeAssumption == MinFinalize \in Nat \ {0}

VARIABLES
    ui,       \* the recorder's status, as the page shows it
    rec,      \* the state of the MediaRecorder
    heard,    \* units it has recorded
    sent,     \* units handed to the socket
    flushing, \* its last data event is due
    pauses,   \* pauses so far
    open,     \* the socket, as the browser sees it
    up,       \* messages to the server, the end of the connection last
    down,     \* messages to the browser
    at,       \* what the consumer is doing
    marked,   \* the session's status, "none" before there is a session
    stored,   \* units in the session's file
    uploads,  \* the meetings created: the units in the file of each
    meeting,  \* the one the session is linked to, 0 for none
    stops,    \* how often Stop was pressed (history)
    asked,    \* units sent when the user first stopped or left (history)
    happened  \* what went wrong (history)

browser  == <<ui, rec, heard, sent, flushing, pauses>>
socket   == <<open, up, down>>
session  == <<marked, stored, uploads, meeting>>
noted    == <<stops, asked, happened>>
liveVars == <<browser, socket, at, session, noted>>

Ongoing  == {"recording", "paused"}
Finished == {"completed", "failed", "abandoned"}

Message(t) == [type |-> t, units |-> 0]
Chunk(n)   == [type |-> "chunk", units |-> n]

Send(m) == up' = IF open THEN Append(up, m) ELSE up
Tell(t) == down' = IF open THEN Append(down, t) ELSE down

LiveTypes ==
    /\ ui \in {"idle", "connecting", "finalizing", "completed", "error", "left"} \cup Ongoing
    /\ rec \in {"inactive"} \cup Ongoing
    /\ heard \in 0..MaxHeard /\ sent \in 0..heard /\ stored \in 0..sent
    /\ flushing \in BOOLEAN /\ open \in BOOLEAN
    /\ pauses \in 0..MaxPauses
    /\ up \in Seq([type : {"start", "chunk", "pause", "resume", "stop", "close"},
                   units : 0..MaxHeard])
    /\ down \in Seq({"started", "paused", "recording", "finalizing", "completed", "error"})
    /\ at \in {"idle", "stopping", "uploading", "linking", "gone"}
    /\ marked \in {"none", "finalizing"} \cup Ongoing \cup Finished
    /\ uploads \in Seq(1..MaxHeard) /\ meeting \in 0..Len(uploads)
    /\ stops \in Nat /\ asked \in 0..sent
    /\ happened \subseteq {"dropped", "crashed", "refused", "broke"}

LiveInit ==
    /\ ui = "idle" /\ rec = "inactive" /\ heard = 0 /\ sent = 0
    /\ flushing = FALSE /\ pauses = 0
    /\ open = FALSE /\ up = <<>> /\ down = <<>>
    /\ at = "idle"
    /\ marked = "none" /\ stored = 0 /\ uploads = <<>> /\ meeting = 0
    /\ stops = 0 /\ asked = 0 /\ happened = {}

-----------------------------------------------------------------------------
(* The browser.                                                            *)

\* The socket opens: "start" goes out and the recorder starts.
Start ==
    /\ ui = "idle"
    /\ ui' = "connecting"
    /\ rec' = "recording"
    /\ open' = TRUE
    /\ up' = <<Message("start")>>
    /\ UNCHANGED <<heard, sent, flushing, pauses, down, at, session, noted>>

Hear ==
    /\ rec = "recording" /\ heard < MaxHeard
    /\ heard' = heard + 1
    /\ UNCHANGED <<ui, rec, sent, flushing, pauses, socket, at, session, noted>>

\* A data event of the recorder; on a closed socket the data is dropped.
SendData ==
    /\ heard > sent /\ open
    /\ sent' = heard
    /\ Send(Chunk(heard - sent))
    /\ UNCHANGED <<ui, rec, heard, pauses, open, down, at, session, noted>>

Timeslice == rec = "recording" /\ SendData /\ UNCHANGED flushing

Pause ==
    /\ ui = "recording" /\ rec = "recording" /\ pauses < MaxPauses
    /\ ui' = "paused" /\ rec' = "paused" /\ pauses' = pauses + 1
    /\ Send(Message("pause"))
    /\ UNCHANGED <<heard, sent, flushing, open, down, at, session, noted>>

Resume ==
    /\ ui = "paused" /\ rec = "paused"
    /\ ui' = "recording" /\ rec' = "recording"
    /\ Send(Message("resume"))
    /\ UNCHANGED <<heard, sent, flushing, pauses, open, down, at, session, noted>>

\* For the properties: what the user has asked for, and when.
NoteStop ==
    /\ stops' = stops + 1
    /\ asked' = IF stops = 0 THEN sent ELSE asked
    /\ UNCHANGED happened

\* requestData and stop leave the last data event due; "stop" goes out at
\* once.  The button is disabled only while the page says "finalizing".
Stop ==
    /\ ui \in {"connecting"} \cup Ongoing
    /\ ui' = "finalizing"
    /\ rec' = "inactive"
    /\ flushing' = (flushing \/ rec # "inactive")
    /\ Send(Message("stop"))
    /\ NoteStop
    /\ UNCHANGED <<heard, sent, pauses, open, down, at, session>>

Flush == flushing /\ SendData /\ flushing' = FALSE

\* cleanup: the recorder is stopped, its last data finds a closing socket.
CleanUp ==
    /\ rec' = "inactive" /\ flushing' = FALSE
    /\ open' = FALSE /\ down' = <<>>
    /\ Send(Message("close"))

Leave ==
    /\ open
    /\ ui' = "left"
    /\ CleanUp
    /\ asked' = IF stops = 0 THEN sent ELSE asked
    /\ UNCHANGED <<heard, sent, pauses, at, session, stops, happened>>

OnMessage ==
    /\ down # <<>>
    /\ ui' = IF Head(down) = "started" THEN "recording" ELSE Head(down)
    /\ IF Head(down) = "completed"
       THEN CleanUp
       ELSE /\ down' = Tail(down)
            /\ UNCHANGED <<rec, flushing, open, up>>
    /\ UNCHANGED <<heard, sent, pauses, at, session, noted>>

Browser ==
    \/ Start \/ Hear \/ Timeslice \/ Pause \/ Resume \/ Stop \/ Flush \/ Leave
    \/ OnMessage

-----------------------------------------------------------------------------
(* The consumer.                                                           *)

Receive(t) ==
    /\ at = "idle" /\ up # <<>> /\ Head(up).type = t
    /\ up' = Tail(up)

OnStart ==
    /\ Receive("start")
    /\ marked' = "recording"
    /\ Tell("started")
    /\ UNCHANGED <<browser, open, at, stored, uploads, meeting, noted>>

OnChunk ==
    /\ Receive("chunk")
    /\ stored' = stored + Head(up).units
    /\ UNCHANGED <<browser, open, down, at, marked, uploads, meeting, noted>>

\* Whatever the session's status is.
SetStatus(t, s) ==
    /\ Receive(t)
    /\ marked' = s
    /\ Tell(s)
    /\ UNCHANGED <<browser, open, at, stored, uploads, meeting, noted>>

\* Bug: control messages are handled at once, before the chunks that wait.
OnStopAhead ==
    /\ at = "idle"
    /\ \E i \in DOMAIN up :
        /\ up[i].type = "stop"
        /\ up' = SubSeq(up, 1, i - 1) \o SubSeq(up, i + 1, Len(up))
    /\ at' = "stopping"
    /\ Tell("finalizing")
    /\ UNCHANGED <<browser, open, session, noted>>

\* The last transcription pass begins.
OnStop ==
    /\ Receive("stop")
    /\ at' = "stopping"
    /\ Tell("finalizing")
    /\ UNCHANGED <<browser, open, session, noted>>

EndSession ==
    IF stored < MinFinalize
    THEN marked' = "abandoned" /\ UNCHANGED at
    ELSE at' = "stopping" /\ UNCHANGED marked

KeepSession == UNCHANGED <<marked, at>>

\* Bug: the session's status is not asked.
DisconnectAlways ==
    /\ Receive("close")
    /\ IF marked # "none" THEN EndSession ELSE KeepSession
    /\ UNCHANGED <<browser, open, down, stored, uploads, meeting, noted>>

\* Bug: a paused recording is left as it is.
DisconnectWhileRecording ==
    /\ Receive("close")
    /\ IF marked = "recording" THEN EndSession ELSE KeepSession
    /\ UNCHANGED <<browser, open, down, stored, uploads, meeting, noted>>

\* finalize_on_disconnect, which re-reads the session.
Disconnect ==
    /\ Receive("close")
    /\ IF marked \in Ongoing THEN EndSession ELSE KeepSession
    /\ UNCHANGED <<browser, open, down, stored, uploads, meeting, noted>>

Finalize ==
    /\ at = "stopping"
    /\ at' = "uploading"
    /\ marked' = "finalizing"
    /\ UNCHANGED <<browser, socket, stored, uploads, meeting, noted>>

Duplicate == \E i \in DOMAIN uploads : uploads[i] = stored

\* An empty file, a duplicate, or a file that create_upload does not accept.
Refused ==
    /\ at = "uploading"
    /\ at' = "idle"
    /\ marked' = "failed"
    /\ Tell("error")
    /\ happened' = happened \cup (IF stored = 0 \/ Duplicate THEN {} ELSE {"refused"})
    /\ UNCHANGED <<browser, open, up, stored, uploads, meeting, stops, asked>>

\* create_upload commits: the meeting exists and is queued for processing.
Upload ==
    /\ at = "uploading" /\ stored > 0 /\ ~Duplicate
    /\ at' = "linking"
    /\ uploads' = Append(uploads, stored)
    /\ UNCHANGED <<browser, socket, marked, stored, meeting, noted>>

\* Any other exception (storage, database) leaves the status as it is.
Break ==
    /\ at \in {"uploading", "linking"} /\ stored > 0
    /\ at' = "idle"
    /\ Tell("error")
    /\ happened' = happened \cup {"broke"}
    /\ UNCHANGED <<browser, open, up, session, stops, asked>>

LinkMeeting ==
    /\ at = "linking"
    /\ at' = "idle"
    /\ marked' = "completed"
    /\ meeting' = Len(uploads)
    /\ Tell("completed")
    /\ UNCHANGED <<browser, open, up, stored, uploads, noted>>

Consumer ==
    \/ OnStart \/ OnChunk \/ SetStatus("pause", "paused") \/ SetStatus("resume", "recording")
    \/ OnStop \/ Disconnect \/ Finalize \/ Refused \/ Upload \/ Break \/ LinkMeeting

-----------------------------------------------------------------------------
(* The environment.  The page notices a lost connection or does not.       *)

\* The connection is lost with the messages not yet delivered.
Drop ==
    /\ open
    /\ \E k \in 0..Len(up) : up' = Append(SubSeq(up, 1, k), Message("close"))
    /\ down' = <<>>
    /\ open' = FALSE
    /\ ui' \in {ui, "error"}
    /\ happened' = happened \cup {"dropped"}
    /\ UNCHANGED <<rec, heard, sent, flushing, pauses, at, session, stops, asked>>

\* The server process ends, or gives up a consumer that outlives its socket.
Crash ==
    /\ ui # "idle" /\ at # "gone"
    /\ at' = "gone"
    /\ up' = <<>> /\ down' = <<>>
    /\ open' = FALSE
    /\ ui' \in IF open THEN {ui, "error"} ELSE {ui}
    /\ happened' = happened \cup {"crashed"}
    /\ UNCHANGED <<rec, heard, sent, flushing, pauses, session, stops, asked>>

LiveNext == Browser \/ Consumer \/ Drop \/ Crash

LiveSpec == LiveInit /\ [][LiveNext]_liveVars

\* The server goes on while it has messages or work; nothing is assumed of
\* the user, and nothing of the connection.
LiveFairSpec == LiveSpec /\ WF_liveVars(Consumer)

-----------------------------------------------------------------------------
\* What the browser sent before it said "stop", or before the user left, is in
\* the file of the meeting: consumer.receive awaits each chunk in turn.
CompletedHoldsSent ==
    marked = "completed" /\ "dropped" \notin happened => uploads[meeting] >= asked

\* However a recording ends, by Stop, by the disconnect that follows it, or by
\* a lost connection, it becomes one meeting at most (consumer.py:39-41 calls
\* the disconnect idempotent).  Pressing Stop twice is left out: a late status
\* reply enables the button again, and the data event that follows the first
\* "stop" changes the file, so the second one makes a second meeting.  And the
\* status agrees: COMPLETED is linked to the meeting, FAILED and ABANDONED
\* sessions left none behind.
OneMeeting ==
    stops <= 1 =>
        /\ Len(uploads) <= 1
        /\ marked \in {"failed", "abandoned"} => uploads = <<>>
        /\ marked = "completed" => uploads # <<>> /\ meeting = Len(uploads)

\* A connection that ends settles the session, and if what was sent before the
\* user stopped or left is worth a meeting it has become one, unless
\* create_upload refused it, an exception or a crash came in between, or
\* messages were lost with the connection (service.finalize_on_disconnect:
\* "so it is never lost").
Excused == happened \cap {"refused", "broke", "crashed"} # {}
Settled ==
    /\ marked \in Finished \cup {"none"}
    /\ asked >= MinFinalize /\ "dropped" \notin happened => uploads # <<>>
RecordingSettles == (ui # "idle" /\ ~open) ~> (Excused \/ Settled)

\* live/page.tsx:298 promises "Your recording is safe", and live/models.py:79-80
\* that the transcript is produced "against the full recording": after Stop the
\* completed session's meeting holds all that the recorder heard.
RecordingIsWhole ==
    marked = "completed" /\ stops = 1 /\ ui # "left" /\ happened = {}
        => uploads[meeting] = heard
=============================================================================
