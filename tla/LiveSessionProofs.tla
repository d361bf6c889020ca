------------------------- MODULE LiveSessionProofs -------------------------
(***************************************************************************)
(* What is proved about one live recording.                                *)
(*                                                                         *)
(* CompletedHoldsSent.  The audio reaches the file one message at a time,  *)
(* so that what the browser has sent is partly in the file and partly in   *)
(* the queue.  The invariant has a function for the queue, level: the      *)
(* units that will be in the file when the first i messages have been      *)
(* handled.  level starts at the file and, unless messages were lost, ends *)
(* at what was sent, and it has reached what the user asked for at every   *)
(* "stop" and at every "close".  That is what the consumer's order is for: *)
(* when it takes the message that ends the recording, the file is at that  *)
(* level (Enough), and nothing takes audio out of it.  The levels are      *)
(* stated by \E so that no sum over a sequence has to be unfolded: a       *)
(* message that is sent adds a level at the end, one that is taken drops   *)
(* the first.                                                              *)
(*                                                                         *)
(* OneMeeting.  With one press of Stop at most, nothing but audio and the  *)
(* close follows a stop in the queue (Ends), so that no message restarts a *)
(* session that is at its end (Quiet), whose status then says how many     *)
(* meetings there are (Uploaded).                                          *)
(*                                                                         *)
(* SettledAtRest.  The connection has an end that the consumer comes to    *)
(* (Closes), where it leaves a session finished (AtEnd) and whatever is    *)
(* worth a meeting uploaded (Kept).                                        *)
(***************************************************************************)
EXTENDS LiveSession, SequenceTheorems, TLAPS

\* The messages of the browser.
Types == {"start", "chunk", "pause", "resume", "stop", "close"}
\* A message with the audio it brings.
Messages == [type : Types, units : 0..MaxHeard]
\* What the consumer says.
Replies == {"started", "paused", "recording", "finalizing", "completed", "error"}

\* Only audio counts in the file.
Weights == \A i \in 1..Len(up) : up[i].type # "chunk" => up[i].units = 0

\* The user has said that the recording is over.
Due == stops >= 1 \/ ui = "left"

\* Some of what was sent will not be handled.
Lost == "dropped" \in happened \/ at = "gone"

\* What will be in the file when the consumer gets to a message.
Counts(level) ==
    /\ level \in [0..Len(up) -> 0..sent]
    /\ level[0] = stored
    /\ \A i \in 1..Len(up) : level[i] = level[i-1] + up[i].units
    /\ ~ Lost => level[Len(up)] = sent
    /\ ~ Lost => \A i \in 1..Len(up) : up[i].type \in {"stop", "close"} => level[i] >= asked
\* There are such levels.
Levels == \E level : Counts(level)

\* The file at every step after that.
Enough ==
    "dropped" \notin happened =>
        /\ at \in {"stopping", "uploading", "linking"} => Due /\ stored >= asked
        /\ at = "linking" => uploads # <<>> /\ uploads[Len(uploads)] >= asked
        /\ meeting # 0 => Due /\ uploads[meeting] >= asked
        /\ \A i \in 1..Len(up) : up[i].type \in {"stop", "close"} => Due

\* Before the recording, while it is open, and after.
Phases ==
    /\ ui = "idle" => /\ ~open /\ rec = "inactive" /\ up = <<>> /\ down = <<>> /\ at = "idle"
                      /\ marked = "none" /\ stops = 0 /\ stored = 0 /\ sent = 0 /\ asked = 0
                      /\ uploads = <<>> /\ meeting = 0 /\ happened = {}
    /\ ui = "left" => ~open
    /\ ~open => down = <<>>
    /\ stops = 0 /\ ui # "left" => asked = 0
    /\ stops >= 1 => rec = "inactive"
    /\ at = "linking" => uploads # <<>>
    /\ marked = "completed" => meeting # 0
    /\ Lost \/ ui = "completed" => ~open
    /\ ~open => Lost \/ ui \in {"idle", "left", "completed"}
    /\ \A i \in 1..Len(down) : down[i] = "completed" => stops >= 1

\* The types, for the parts an action changes.
TypesBrowser ==
    /\ ui \in {"idle", "connecting", "finalizing", "completed", "error", "left"} \cup Ongoing
    /\ rec \in {"inactive"} \cup Ongoing
    /\ heard \in 0..MaxHeard /\ sent \in 0..heard
    /\ flushing \in BOOLEAN /\ pauses \in 0..MaxPauses
\* The session and its meetings.
TypesServer ==
    /\ stored \in 0..sent
    /\ at \in {"idle", "stopping", "uploading", "linking", "gone"}
    /\ marked \in {"none", "finalizing"} \cup Ongoing \cup Finished
    /\ uploads \in Seq(1..MaxHeard) /\ meeting \in 0..Len(uploads)
\* The socket and the history.
TypesRest ==
    /\ open \in BOOLEAN /\ stops \in Nat /\ asked \in 0..sent
    /\ happened \subseteq {"dropped", "crashed", "refused", "broke"}
    /\ up \in Seq(Messages) /\ down \in Seq(Replies)

\* The inductive invariant of TypeOK and CompletedHoldsSent.
LiveInv == TypesBrowser /\ TypesServer /\ TypesRest /\ Weights /\ Levels /\ Enough /\ Phases

USE LiveBoundsAssumption, MinFinalizeAssumption

\* A message that is sent is the last to arrive.
LEMMA Sent ==
    ASSUME up \in Seq(Messages), NEW m \in Messages, Send(m)
    PROVE  /\ up' \in Seq(Messages)
           /\ open => /\ Len(up') = Len(up) + 1 /\ up'[Len(up) + 1] = m
                      /\ \A i \in 1..Len(up) : up'[i] = up[i]
           /\ ~ open => up' = up
BY AppendProperties DEF Send

\* What the consumer takes is the first.
LEMMA Taken ==
    ASSUME up \in Seq(Messages), NEW t, Receive(t)
    PROVE  /\ up' \in Seq(Messages) /\ Len(up) >= 1 /\ Len(up') = Len(up) - 1
           /\ Head(up) = up[1] /\ up[1].type = t /\ up[1].units \in 0..MaxHeard
           /\ \A i \in 1..Len(up') : up'[i] = up[i + 1]
<1>1. up # <<>> /\ up' = Tail(up) /\ Head(up).type = t
    BY DEF Receive
<1>2. Head(up) = up[1] /\ up[1] \in Messages
    BY <1>1, HeadTailProperties
<1> QED
    BY <1>1, <1>2, HeadTailProperties DEF Messages

\* What the consumer says is one of its replies.
LEMMA Told ==
    ASSUME down \in Seq(Replies), NEW t \in Replies, Tell(t)
    PROVE  down' \in Seq(Replies) /\ (~ open => down' = down)
BY AppendProperties DEF Tell

\* Only a chunk brings audio.
LEMMA MessageTypes ==
    /\ \A t \in Types : Message(t) \in Messages /\ Message(t).type = t /\ Message(t).units = 0
    /\ \A n \in 0..MaxHeard : Chunk(n) \in Messages /\ Chunk(n).type = "chunk" /\ Chunk(n).units = n
BY DEF Message, Chunk, Messages, Types

\* Nothing was sent and nothing is in the file.
LEMMA LiveInvInit == LiveInit => LiveInv
<1> SUFFICES ASSUME LiveInit PROVE LiveInv
    OBVIOUS
<1>1. up = <<>> /\ Len(up) = 0 /\ uploads = <<>> /\ Len(uploads) = 0 /\ down = <<>>
    BY DEF LiveInit
<1>2. up \in Seq(Messages) /\ down \in Seq(Replies) /\ uploads \in Seq(1..MaxHeard)
    BY <1>1
<1>3. TypesBrowser
    <2>1. heard \in 0..MaxHeard /\ sent \in 0..heard /\ pauses \in 0..MaxPauses
        BY DEF LiveInit
    <2> QED
        BY Zenon, <2>1 DEF LiveInit, TypesBrowser
<1>6. TypesServer
    BY <1>1, <1>2 DEF LiveInit, TypesServer
<1>7. TypesRest
    <2>1. stops \in Nat /\ asked \in 0..sent
        BY DEF LiveInit
    <2> QED
        BY Zenon, <1>2, <2>1 DEF LiveInit, TypesRest
<1>4. Levels
    <2> DEFINE level == [i \in 0..0 |-> 0]
    <2>1. Counts(level)
        BY <1>1 DEF LiveInit, Counts
    <2> QED
        BY <2>1 DEF Levels
<1>5. Weights /\ Enough /\ Phases
    BY <1>1 DEF LiveInit, Weights, Enough, Phases, Lost
<1> QED
    BY <1>3, <1>4, <1>5, <1>6, <1>7 DEF LiveInv

\* A message is sent, or dropped on a closed socket.
LEMMA LevelsSent ==
    ASSUME LiveInv, NEW m \in Messages, Send(m), stored' = stored, Lost' <=> Lost,
           open => sent' = sent + m.units, ~ open => sent' = sent,
           m.type # "chunk" => m.units = 0,
           \/ asked' = asked
           \/ asked' = sent /\ (Lost \/ \A i \in 1..Len(up) : up[i].type \notin {"stop", "close"})
    PROVE  Levels' /\ Weights' /\ up' \in Seq(Messages)
<1>1. TypesServer /\ TypesRest /\ TypesBrowser /\ Weights /\ Levels /\ Phases
    BY DEF LiveInv
<1>2. PICK level : Counts(level)
    BY <1>1 DEF Levels
<1>3. m.units \in Nat /\ sent \in Nat /\ asked \in 0..sent /\ Len(up) \in Nat
    BY <1>1 DEF Messages, TypesBrowser, TypesRest
<1>4. PICK n \in Nat : n = Len(up)
    BY <1>3
<1>5. /\ up' \in Seq(Messages)
      /\ open => Len(up') = n + 1 /\ up'[n + 1] = m /\ \A i \in 1..n : up'[i] = up[i]
      /\ ~ open => up' = up
    BY <1>1, <1>4, Sent DEF TypesRest
<1>6. /\ level \in [0..n -> 0..sent] /\ level[0] = stored
      /\ \A i \in 1..n : level[i] = level[i-1] + up[i].units
      /\ ~ Lost => level[n] = sent
      /\ ~ Lost => \A i \in 1..n : up[i].type \in {"stop", "close"} => level[i] >= asked
    BY <1>2, <1>4 DEF Counts
<1>7. ~ Lost => \A i \in 1..n : up[i].type \in {"stop", "close"} => level[i] >= asked'
    BY <1>4, <1>6
<1>8. CASE open
    <2>1. ~ Lost
        BY <1>1, <1>8 DEF Phases
    <2>9. sent' \in Nat /\ sent <= sent' /\ sent' = sent + m.units
        BY <1>3, <1>8
    <2>10. \A i \in 0..n : level[i] \in 0..sent'
        BY <1>3, <1>6, <2>9
    <2>11. \A i \in 0..(n+1) : (IF i = n + 1 THEN sent' ELSE level[i]) \in 0..sent'
        BY <1>3, <2>9, <2>10
    <2>2. PICK ahead \in [0..(n+1) -> 0..sent'] : ahead = [i \in 0..(n+1) |-> IF i = n + 1 THEN sent' ELSE level[i]]
        BY <2>11
    <2>3. /\ \A i \in 0..n : ahead[i] = level[i]
          /\ ahead[n+1] = sent'
        BY <2>2
    <2>4. \A i \in 1..(n+1) : ahead[i] = ahead[i-1] + up'[i].units
        <3>1. \A i \in 1..n : ahead[i] = ahead[i-1] + up'[i].units
            <4> TAKE i \in 1..n
            <4>1. ahead[i] = level[i] /\ ahead[i-1] = level[i-1] /\ up'[i] = up[i]
                BY <1>5, <1>8, <2>3
            <4> QED
                BY <1>6, <4>1
        <3>2. ahead[n+1] = ahead[n] + up'[n+1].units
            BY <1>3, <1>5, <1>6, <1>8, <2>1, <2>3, <2>9
        <3> SUFFICES ASSUME NEW i \in 1..(n+1) PROVE ahead[i] = ahead[i-1] + up'[i].units
            OBVIOUS
        <3>3. i \in 1..n \/ (i = n + 1 /\ i - 1 = n)
            OBVIOUS
        <3> QED
            BY <3>1, <3>2, <3>3
    <2>5. \A i \in 1..(n+1) : up'[i].type \in {"stop", "close"} => ahead[i] >= asked'
        <3> SUFFICES ASSUME NEW i \in 1..(n+1), up'[i].type \in {"stop", "close"} PROVE ahead[i] >= asked'
            OBVIOUS
        <3>1. CASE i \in 1..n
            <4>1. ahead[i] = level[i] /\ up'[i] = up[i]
                BY <1>5, <1>8, <2>3, <3>1
            <4> QED
                BY <1>7, <2>1, <3>1, <4>1
        <3>2. CASE i = n + 1
            <4>1. asked' \in 0..sent /\ ahead[i] = sent'
                BY <1>3, <2>3, <3>2
            <4> QED
                BY <1>3, <2>9, <4>1
        <3> QED
            BY <3>1, <3>2
    <2>6. Counts(ahead)'
        <3>1. Len(up') = n + 1
            BY <1>5, <1>8
        <3>2. ahead[0] = stored'
            BY <1>4, <1>6, <2>3
        <3> HIDE <2>2
        <3>3. ahead \in [0..Len(up') -> 0..sent'] /\ ahead[Len(up')] = sent'
            BY <2>2, <2>3, <3>1
        <3>4. \A i \in 1..Len(up') : ahead[i] = ahead[i-1] + up'[i].units
            BY <2>4, <3>1
        <3>5. \A i \in 1..Len(up') : up'[i].type \in {"stop", "close"} => ahead[i] >= asked'
            BY <2>5, <3>1
        <3> QED
            BY <3>2, <3>3, <3>4, <3>5 DEF Counts
    <2>7. Weights'
        BY <1>1, <1>4, <1>5, <1>8 DEF Weights
    <2> QED
        BY <1>5, <2>6, <2>7 DEF Levels
<1>9. CASE ~ open
    <2>1. up' = up /\ sent' = sent
        BY <1>5, <1>9
    <2>2. Counts(level)'
        BY <1>4, <1>6, <1>7, <2>1 DEF Counts
    <2> QED
        BY <1>1, <1>5, <2>1, <2>2 DEF Weights, Levels
<1> QED
    BY <1>8, <1>9

\* The consumer takes the first message, and the audio in it.
LEMMA LevelsTaken ==
    ASSUME LiveInv, NEW t, Receive(t), stored' = stored + up[1].units, UNCHANGED <<sent, asked>>, Lost' <=> Lost
    PROVE  /\ Levels' /\ Weights' /\ up' \in Seq(Messages)
           /\ stored' \in 0..sent
           /\ ~ Lost /\ t \in {"stop", "close"} => stored' >= asked
<1>1. TypesServer /\ TypesRest /\ TypesBrowser /\ Weights /\ Levels
    BY DEF LiveInv
<1>2. PICK level : Counts(level)
    BY <1>1 DEF Levels
<1>3. PICK n \in Nat : n = Len(up)
    BY <1>1 DEF TypesRest
<1>4. /\ up' \in Seq(Messages) /\ n >= 1 /\ Len(up') = n - 1 /\ up[1].type = t
      /\ \A i \in 1..(n-1) : up'[i] = up[i + 1]
    BY <1>1, <1>3, Taken DEF TypesRest
<1>5. /\ level \in [0..n -> 0..sent] /\ level[0] = stored
      /\ \A i \in 1..n : level[i] = level[i-1] + up[i].units
      /\ ~ Lost => level[n] = sent
      /\ ~ Lost => \A i \in 1..n : up[i].type \in {"stop", "close"} => level[i] >= asked
    BY <1>2, <1>3 DEF Counts
<1>6. PICK rest \in [0..(n-1) -> 0..sent] : rest = [i \in 0..(n-1) |-> level[i+1]]
    <2>1. \A i \in 0..(n-1) : level[i+1] \in 0..sent
        BY <1>4, <1>5
    <2> QED
        BY <2>1
<1>7. \A i \in 0..(n-1) : rest[i] = level[i+1]
    BY <1>6
<1>8. rest[0] = stored' /\ level[1] = stored'
    BY <1>4, <1>5, <1>7
<1>9. \A i \in 1..(n-1) : rest[i] = rest[i-1] + up'[i].units
    <2> TAKE i \in 1..(n-1)
    <2>1. rest[i] = level[i+1] /\ rest[i-1] = level[i] /\ i + 1 \in 1..n
        BY <1>7
    <2>2. level[i+1] = level[i] + up[i+1].units
        BY <1>5, <2>1
    <2> QED
        BY <1>4, <2>1, <2>2
<1>10. ~ Lost => rest[n-1] = sent
    BY <1>4, <1>5, <1>7
<1>11. ~ Lost => \A i \in 1..(n-1) : up'[i].type \in {"stop", "close"} => rest[i] >= asked
    <2> SUFFICES ASSUME ~ Lost, NEW i \in 1..(n-1), up'[i].type \in {"stop", "close"} PROVE rest[i] >= asked
        OBVIOUS
    <2>1. i + 1 \in 1..n /\ rest[i] = level[i+1] /\ up[i+1].type \in {"stop", "close"}
        BY <1>4, <1>7
    <2> QED
        BY <1>5, <2>1
<1>12. Counts(rest)'
    BY <1>4, <1>6, <1>8, <1>9, <1>10, <1>11 DEF Counts
<1>13. Weights'
    BY <1>1, <1>3, <1>4 DEF Weights
<1> QED
    BY <1>4, <1>5, <1>8, <1>12, <1>13 DEF Levels

\* Nothing is sent or taken.
LEMMA LevelsKept ==
    ASSUME LiveInv, UNCHANGED <<up, stored, sent, asked>>, Lost => Lost'
    PROVE  Levels' /\ Weights'
<1>1. PICK level : Counts(level)
    BY DEF LiveInv, Levels
<1>2. Counts(level)'
    BY <1>1 DEF Counts
<1> QED
    BY <1>2 DEF LiveInv, Levels, Weights

\* What is sent says that this is the end when it is.
LEMMA EnoughSent ==
    ASSUME LiveInv, NEW m \in Messages, Send(m), Due => Due', m.type \in {"stop", "close"} => Due',
           UNCHANGED <<at, stored, uploads, meeting, happened>>, asked' = asked \/ ~ Due
    PROVE  Enough'
<1>1. TypesRest /\ TypesServer /\ Enough
    BY DEF LiveInv
<1>2. PICK n \in Nat : n = Len(up)
    BY <1>1 DEF TypesRest
<1>3. /\ open => Len(up') = n + 1 /\ up'[n + 1] = m /\ \A i \in 1..n : up'[i] = up[i]
      /\ ~ open => up' = up
    BY <1>1, <1>2, Sent DEF TypesRest
<1>4. ASSUME "dropped" \notin happened, NEW i \in 1..Len(up'), up'[i].type \in {"stop", "close"} PROVE Due'
    <2>1. CASE i \in 1..n /\ up'[i] = up[i]
        BY <1>1, <1>2, <1>4, <2>1 DEF Enough
    <2>2. CASE i = n + 1 /\ up'[i] = m
        BY <1>4, <2>2
    <2>3. i \in 1..n \/ (open /\ i = n + 1)
        BY <1>2, <1>3
    <2> QED
        BY <1>3, <2>1, <2>2, <2>3
<1>5. ASSUME "dropped" \notin happened
      PROVE  /\ at \in {"stopping", "uploading", "linking"} => Due' /\ stored >= asked'
             /\ at = "linking" => uploads # <<>> /\ uploads[Len(uploads)] >= asked'
             /\ meeting # 0 => Due' /\ uploads[meeting] >= asked'
    BY <1>1, <1>5 DEF Enough
<1> QED
    BY <1>4, <1>5 DEF Enough

\* The facts of the browser's types that its actions need.
LEMMA BrowserFacts ==
    ASSUME LiveInv
    PROVE  /\ TypesBrowser /\ TypesServer /\ TypesRest /\ Phases /\ Enough
BY DEF LiveInv

\* The socket opens.
LEMMA StartSends == ASSUME LiveInv, Start PROVE LiveInv'
<1>1. /\ ui = "idle" /\ ui' = "connecting" /\ rec' = "recording" /\ open' = TRUE
      /\ up' = <<Message("start")>>
      /\ UNCHANGED <<heard, sent, flushing, pauses, down, at, marked, stored, uploads, meeting,
                     stops, asked, happened>>
    BY DEF Start, session, noted
<1>2. /\ TypesBrowser /\ TypesServer /\ TypesRest /\ Phases
    BY BrowserFacts
<1>3. /\ at = "idle" /\ marked = "none" /\ stops = 0 /\ stored = 0 /\ sent = 0 /\ asked = 0
      /\ uploads = <<>> /\ meeting = 0 /\ happened = {} /\ down = <<>>
    BY <1>1, <1>2 DEF Phases
<1>4. Message("start") \in Messages /\ Message("start").type = "start" /\ Message("start").units = 0
    BY MessageTypes DEF Types
<1>5. up' \in Seq(Messages) /\ Len(up') = 1 /\ up'[1] = Message("start")
    BY <1>1, <1>4
<1>6. TypesBrowser'
    <2>1. flushing' \in BOOLEAN /\ ui' \in {"connecting"} /\ rec' \in Ongoing
        BY Zenon, <1>1, <1>2 DEF TypesBrowser, Ongoing
    <2>2. heard' \in 0..MaxHeard /\ sent' \in 0..heard' /\ pauses' \in 0..MaxPauses
        BY <1>1, <1>2 DEF TypesBrowser
    <2> QED
        BY Zenon, <2>1, <2>2 DEF TypesBrowser
<1>7. TypesServer'
    BY <1>1, <1>2 DEF TypesServer
<1>8. TypesRest'
    <2>1. stops' \in Nat /\ asked' \in 0..sent'
        BY <1>1, <1>2 DEF TypesRest
    <2> QED
        BY Zenon, <1>1, <1>2, <1>5, <2>1 DEF TypesRest
<1>9. Levels' /\ Weights'
    <2>0. sent' = 0
        BY <1>1, <1>3
    <2>5. PICK level : level = [i \in 0..1 |-> 0]
        OBVIOUS
    <2>2. level[0] = 0 /\ level[1] = 0
        BY <2>5
    <2>1. level \in [0..1 -> 0..sent']
        BY <2>0, <2>5
    <2>3. \A i \in 1..1 : level[i] = level[i-1] + up'[i].units
        BY <1>4, <1>5, <2>2
    <2>4. Counts(level)'
        BY <1>1, <1>3, <1>4, <1>5, <2>1, <2>2, <2>3 DEF Counts
    <2>6. Weights'
        BY <1>4, <1>5 DEF Weights
    <2> QED
        BY <2>4, <2>6 DEF Levels
<1>10. Enough'
    BY <1>1, <1>3, <1>4, <1>5 DEF Enough
<1>11. Phases'
    BY <1>1, <1>3 DEF Phases, Lost
<1> QED
    BY <1>6, <1>7, <1>8, <1>9, <1>10, <1>11 DEF LiveInv

\* The recorder records.
LEMMA HearSends == ASSUME LiveInv, Hear PROVE LiveInv'
<1>1. /\ rec = "recording" /\ heard < MaxHeard /\ heard' = heard + 1
      /\ UNCHANGED <<ui, rec, sent, flushing, pauses, open, up, down, at, marked, stored, uploads, meeting,
                     stops, asked, happened>>
    BY DEF Hear, socket, session, noted
<1>2. TypesBrowser /\ TypesServer /\ TypesRest /\ Phases /\ Enough
    BY BrowserFacts
<1>3. TypesBrowser'
    <2>1. heard' \in 0..MaxHeard /\ sent' \in 0..heard' /\ pauses' \in 0..MaxPauses
        BY <1>1, <1>2 DEF TypesBrowser
    <2> QED
        BY Zenon, <1>1, <1>2, <2>1 DEF TypesBrowser
<1>4. TypesServer' /\ TypesRest'
    BY <1>1, <1>2 DEF TypesServer, TypesRest
<1>5. Levels' /\ Weights'
    BY <1>1, LevelsKept DEF Lost
<1>6. Enough' /\ Phases'
    BY <1>1, <1>2 DEF Enough, Phases, Due, Lost
<1> QED
    BY <1>3, <1>4, <1>5, <1>6 DEF LiveInv

\* A data event goes out on the open socket.
LEMMA DataSends == ASSUME LiveInv, Timeslice \/ Flush PROVE LiveInv'
<1>1. /\ heard > sent /\ open /\ sent' = heard /\ Send(Chunk(heard - sent))
      /\ flushing' \in {flushing, FALSE}
      /\ UNCHANGED <<ui, rec, heard, pauses, open, down, at, marked, stored, uploads, meeting,
                     stops, asked, happened>>
    BY DEF Timeslice, Flush, SendData, session, noted
<1>2. TypesBrowser /\ TypesServer /\ TypesRest /\ Phases /\ Enough
    BY BrowserFacts
<1>3. heard - sent \in 0..MaxHeard /\ sent' = sent + (heard - sent)
    BY <1>1, <1>2 DEF TypesBrowser
<1>4. PICK m \in Messages : m = Chunk(heard - sent) /\ m.type = "chunk" /\ m.units = heard - sent
    BY <1>3, MessageTypes
<1>5. Levels' /\ Weights' /\ up' \in Seq(Messages)
    BY <1>1, <1>3, <1>4, LevelsSent DEF Lost
<1>6. TypesBrowser'
    <2>1. heard' \in 0..MaxHeard /\ sent' \in 0..heard' /\ pauses' \in 0..MaxPauses
        BY <1>1, <1>2 DEF TypesBrowser
    <2>2. flushing' \in BOOLEAN
        BY Zenon, <1>1, <1>2 DEF TypesBrowser
    <2> QED
        BY Zenon, <1>1, <1>2, <2>1, <2>2 DEF TypesBrowser
<1>7. stored' \in 0..sent' /\ asked' \in 0..sent'
    BY <1>1, <1>2, <1>3 DEF TypesServer, TypesRest, TypesBrowser
<1>8. TypesServer' /\ TypesRest'
    BY Zenon, <1>1, <1>2, <1>5, <1>7 DEF TypesServer, TypesRest
<1>9. Enough'
    BY <1>1, <1>4, EnoughSent DEF Due
<1>10. Phases'
    BY <1>1, <1>2 DEF Phases, Lost
<1> QED
    BY <1>5, <1>6, <1>8, <1>9, <1>10 DEF LiveInv

\* Pause and resume bring no audio.
LEMMA PauseSends == ASSUME LiveInv, Pause \/ Resume PROVE LiveInv'
<1>1. PICK t \in {"pause", "resume"} : Send(Message(t))
    BY DEF Pause, Resume
<1>2. /\ ui \in Ongoing /\ ui' \in Ongoing /\ rec \in Ongoing /\ rec' \in Ongoing
      /\ pauses' \in {pauses, pauses + 1} /\ (pauses' = pauses + 1 => pauses < MaxPauses \/ pauses' = pauses)
      /\ UNCHANGED <<heard, sent, flushing, open, down, at, marked, stored, uploads, meeting,
                     stops, asked, happened>>
    BY DEF Pause, Resume, Ongoing, session, noted
<1>3. TypesBrowser /\ TypesServer /\ TypesRest /\ Phases /\ Enough
    BY BrowserFacts
<1>4. PICK m \in Messages : m = Message(t) /\ m.type = t /\ m.units = 0
    BY MessageTypes DEF Types
<1>5. Levels' /\ Weights' /\ up' \in Seq(Messages)
    BY <1>1, <1>2, <1>3, <1>4, LevelsSent DEF Lost, TypesBrowser
<1>6. TypesBrowser'
    <2>1. heard' \in 0..MaxHeard /\ sent' \in 0..heard' /\ pauses' \in 0..MaxPauses
        BY <1>2, <1>3 DEF TypesBrowser
    <2> QED
        BY Zenon, <1>2, <1>3, <2>1 DEF TypesBrowser
<1>7. TypesServer' /\ TypesRest'
    BY Zenon, <1>2, <1>3, <1>5 DEF TypesServer, TypesRest
<1>8. Enough'
    BY <1>1, <1>2, <1>4, EnoughSent DEF Due, Ongoing
<1>9. Phases'
    BY <1>2, <1>3 DEF Phases, Lost, Ongoing
<1> QED
    BY <1>5, <1>6, <1>7, <1>8, <1>9 DEF LiveInv

\* Stop sends the last message but one: asked is what was sent before it.
LEMMA StopSends == ASSUME LiveInv, Stop PROVE LiveInv'
<1>1. /\ ui \in {"connecting"} \cup Ongoing /\ ui' = "finalizing" /\ rec' = "inactive"
      /\ flushing' = (flushing \/ rec # "inactive") /\ Send(Message("stop"))
      /\ stops' = stops + 1 /\ asked' = (IF stops = 0 THEN sent ELSE asked)
      /\ UNCHANGED <<heard, sent, pauses, open, down, at, marked, stored, uploads, meeting, happened>>
    BY DEF Stop, NoteStop, session
<1>2. TypesBrowser /\ TypesServer /\ TypesRest /\ Phases /\ Enough
    BY BrowserFacts
<1>3. PICK m \in Messages : m = Message("stop") /\ m.type = "stop" /\ m.units = 0
    BY MessageTypes DEF Types
<1>4. asked' = asked \/ (asked' = sent /\ ~ Due)
    BY <1>1, <1>2 DEF Due, TypesRest, Ongoing
<1>5. ~ Due => Lost \/ \A i \in 1..Len(up) : up[i].type \notin {"stop", "close"}
    BY <1>2 DEF Enough, Lost
<1>6. Levels' /\ Weights' /\ up' \in Seq(Messages)
    BY <1>1, <1>2, <1>3, <1>4, <1>5, LevelsSent DEF Lost, TypesBrowser
<1>7. TypesBrowser'
    <2>1. heard' \in 0..MaxHeard /\ sent' \in 0..heard' /\ pauses' \in 0..MaxPauses
        BY <1>1, <1>2 DEF TypesBrowser
    <2>2. flushing' \in BOOLEAN
        BY Zenon, <1>1
    <2> QED
        BY Zenon, <1>1, <2>1, <2>2 DEF TypesBrowser
<1>8. stops' \in Nat /\ stops' >= 1 /\ asked' \in 0..sent'
    BY <1>1, <1>2 DEF TypesRest, TypesBrowser
<1>9. TypesServer' /\ TypesRest'
    BY Zenon, <1>1, <1>2, <1>6, <1>8 DEF TypesServer, TypesRest
<1>10. Enough'
    BY <1>1, <1>3, <1>4, <1>8, EnoughSent DEF Due
<1>11. Phases'
    BY <1>1, <1>2, <1>8 DEF Phases, Lost, Ongoing
<1> QED
    BY <1>6, <1>7, <1>9, <1>10, <1>11 DEF LiveInv

\* The page is left.
LEMMA LeaveSends == ASSUME LiveInv, Leave PROVE LiveInv'
<1>1. /\ open /\ ui' = "left" /\ rec' = "inactive" /\ flushing' = FALSE /\ open' = FALSE /\ down' = <<>>
      /\ Send(Message("close")) /\ asked' = (IF stops = 0 THEN sent ELSE asked)
      /\ UNCHANGED <<heard, sent, pauses, at, marked, stored, uploads, meeting, stops, happened>>
    BY DEF Leave, CleanUp, session
<1>2. TypesBrowser /\ TypesServer /\ TypesRest /\ Phases /\ Enough
    BY BrowserFacts
<1>3. PICK m \in Messages : m = Message("close") /\ m.type = "close" /\ m.units = 0
    BY MessageTypes DEF Types
<1>4. asked' = asked \/ (asked' = sent /\ ~ Due)
    BY <1>1, <1>2 DEF Due, TypesRest, Phases
<1>5. ~ Due => Lost \/ \A i \in 1..Len(up) : up[i].type \notin {"stop", "close"}
    BY <1>2 DEF Enough, Lost
<1>6. Levels' /\ Weights' /\ up' \in Seq(Messages)
    BY <1>1, <1>2, <1>3, <1>4, <1>5, LevelsSent DEF Lost, TypesBrowser
<1>7. TypesBrowser'
    <2>1. heard' \in 0..MaxHeard /\ sent' \in 0..heard' /\ pauses' \in 0..MaxPauses
        BY <1>1, <1>2 DEF TypesBrowser
    <2> QED
        BY Zenon, <1>1, <2>1 DEF TypesBrowser
<1>8. stops' \in Nat /\ asked' \in 0..sent'
    BY <1>1, <1>2 DEF TypesRest, TypesBrowser
<1>9. TypesServer' /\ TypesRest'
    <2>1. down' \in Seq(Replies)
        BY <1>1
    <2> QED
        BY Zenon, <1>1, <1>2, <1>6, <1>8, <2>1 DEF TypesServer, TypesRest
<1>10. Enough'
    BY <1>1, <1>3, <1>4, EnoughSent DEF Due
<1>11. Phases'
    BY <1>1, <1>2 DEF Phases, Lost
<1> QED
    BY <1>6, <1>7, <1>9, <1>10, <1>11 DEF LiveInv

\* A reply reaches the page, and "completed" closes the socket.
LEMMA ReplySends == ASSUME LiveInv, OnMessage PROVE LiveInv'
<1>1. /\ down # <<>> /\ ui' = (IF Head(down) = "started" THEN "recording" ELSE Head(down))
      /\ IF Head(down) = "completed"
         THEN rec' = "inactive" /\ flushing' = FALSE /\ open' = FALSE /\ down' = <<>> /\ Send(Message("close"))
         ELSE down' = Tail(down) /\ UNCHANGED <<rec, flushing, open, up>>
      /\ UNCHANGED <<heard, sent, pauses, at, marked, stored, uploads, meeting, stops, asked, happened>>
    BY DEF OnMessage, CleanUp, session, noted
<1>2. TypesBrowser /\ TypesServer /\ TypesRest /\ Phases /\ Enough
    BY BrowserFacts
<1>3. open /\ ui # "left" /\ ui # "idle"
    BY <1>1, <1>2 DEF Phases
<1>4. /\ Head(down) \in Replies /\ Head(down) = down[1] /\ Len(down) >= 1
      /\ Tail(down) \in Seq(Replies) /\ Len(Tail(down)) = Len(down) - 1
      /\ \A i \in 1..Len(Tail(down)) : Tail(down)[i] = down[i + 1]
    BY <1>1, <1>2, HeadTailProperties DEF TypesRest
<1>5. /\ ui' \in {"connecting", "finalizing", "completed", "error"} \cup Ongoing
      /\ ui' = "completed" <=> Head(down) = "completed"
    BY <1>1, <1>4 DEF Replies, Ongoing
<1>6. heard' \in 0..MaxHeard /\ sent' \in 0..heard' /\ pauses' \in 0..MaxPauses
    BY <1>1, <1>2 DEF TypesBrowser
<1>7. stops' \in Nat /\ asked' \in 0..sent'
    BY <1>1, <1>2 DEF TypesRest
<1>8. CASE Head(down) = "completed"
    <2>1. stops >= 1
        BY <1>2, <1>4, <1>8 DEF Phases
    <2>2. PICK m \in Messages : m = Message("close") /\ m.type = "close" /\ m.units = 0
        BY MessageTypes DEF Types
    <2>3. Levels' /\ Weights' /\ up' \in Seq(Messages)
        BY <1>1, <1>2, <1>8, <2>2, LevelsSent DEF Lost, TypesBrowser
    <2>4. TypesBrowser'
        BY Zenon, <1>1, <1>5, <1>6, <1>8 DEF TypesBrowser
    <2>5. down' \in Seq(Replies)
        BY <1>1, <1>8
    <2>6. TypesServer' /\ TypesRest'
        BY Zenon, <1>1, <1>2, <1>7, <1>8, <2>3, <2>5 DEF TypesServer, TypesRest
    <2>7. Enough'
        BY <1>1, <1>8, <2>1, <2>2, EnoughSent DEF Due
    <2>8. Phases'
        BY <1>1, <1>2, <1>5, <1>8, <2>1 DEF Phases, Lost
    <2> QED
        BY <2>3, <2>4, <2>6, <2>7, <2>8 DEF LiveInv
<1>9. CASE Head(down) # "completed"
    <2>1. Levels' /\ Weights'
        BY <1>1, <1>9, LevelsKept DEF Lost
    <2>2. TypesBrowser'
        BY Zenon, <1>1, <1>2, <1>5, <1>6, <1>9 DEF TypesBrowser
    <2>3. TypesServer' /\ TypesRest'
        BY Zenon, <1>1, <1>2, <1>4, <1>7, <1>9 DEF TypesServer, TypesRest
    <2>4. Due => Due'
        BY <1>1, <1>3 DEF Due
    <2>5. Enough'
        BY <1>1, <1>2, <1>9, <2>4 DEF Enough
    <2>6. \A i \in 1..Len(down') : down'[i] = "completed" => stops >= 1
        <3>1. \A i \in 1..Len(down') : down'[i] = down[i+1] /\ i + 1 \in 1..Len(down)
            BY <1>1, <1>2, <1>4, <1>9 DEF TypesRest
        <3> QED
            BY <1>2, <3>1 DEF Phases
    <2>7. Phases'
        BY <1>1, <1>2, <1>3, <1>5, <1>9, <2>6 DEF Phases, Lost, Ongoing
    <2> QED
        BY <2>1, <2>2, <2>3, <2>5, <2>7 DEF LiveInv
<1> QED
    BY <1>8, <1>9

\* A reply that is not "completed" changes nothing the invariant is about.
LEMMA Replied ==
    ASSUME LiveInv, NEW t \in Replies, Tell(t), t = "completed" /\ open => stops >= 1, UNCHANGED <<open, stops>>
    PROVE  /\ down' \in Seq(Replies)
           /\ ~ open => down' = <<>>
           /\ \A i \in 1..Len(down') : down'[i] = "completed" => stops' >= 1
<1>1. down \in Seq(Replies) /\ Phases
    BY DEF LiveInv, TypesRest
<1>2. CASE open
    <2>1. /\ Append(down, t) \in Seq(Replies) /\ Len(Append(down, t)) = Len(down) + 1
          /\ Append(down, t)[Len(down) + 1] = t
          /\ \A i \in 1..Len(down) : Append(down, t)[i] = down[i]
        BY <1>1, AppendProperties
    <2>2. down' = Append(down, t)
        BY <1>2 DEF Tell
    <2>3. Len(down) \in Nat
        BY <1>1
    <2>4. ASSUME NEW i \in 1..Len(down'), down'[i] = "completed" PROVE stops' >= 1
        <3>1. i \in 1..Len(down) \/ i = Len(down) + 1
            BY <2>1, <2>2, <2>3
        <3>2. CASE i \in 1..Len(down)
            <4>1. down[i] = "completed"
                BY <2>1, <2>2, <2>4, <3>2
            <4> QED
                BY <1>1, <3>2, <4>1 DEF Phases
        <3>3. CASE i = Len(down) + 1
            BY <1>2, <2>1, <2>2, <2>4, <3>3
        <3> QED
            BY <3>1, <3>2, <3>3
    <2> QED
        BY <1>2, <2>1, <2>2, <2>4
<1>3. CASE ~ open
    BY <1>1, <1>3 DEF Tell, Phases
<1> QED
    BY <1>2, <1>3

\* The consumer handles the first message.
LEMMA MessageTaken ==
    ASSUME LiveInv, NEW t, Receive(t), stored' = stored + up[1].units,
           UNCHANGED <<ui, rec, heard, sent, flushing, pauses, open, uploads, meeting, stops, asked, happened>>,
           at' = "idle" \/ (at' = "stopping" /\ t \in {"stop", "close"}),
           marked' \in {"none", "finalizing"} \cup Ongoing \cup Finished,
           marked' = "completed" => marked = "completed",
           down' = down \/ \E r \in Replies \ {"completed"} : Tell(r)
    PROVE  LiveInv'
<1>1. TypesBrowser /\ TypesServer /\ TypesRest /\ Phases /\ Enough
    BY DEF LiveInv
<1>2. at = "idle" /\ up # <<>>
    BY DEF Receive
<1>3. Lost' <=> Lost
    BY <1>2 DEF Lost
<1>4. /\ Levels' /\ Weights' /\ up' \in Seq(Messages) /\ stored' \in 0..sent
      /\ ~ Lost /\ t \in {"stop", "close"} => stored' >= asked
    BY <1>3, LevelsTaken
<1>5. PICK n \in Nat : n = Len(up)
    BY <1>1 DEF TypesRest
<1>6. n >= 1 /\ Len(up') = n - 1 /\ up[1].type = t /\ \A i \in 1..(n-1) : up'[i] = up[i + 1]
    BY <1>1, <1>5, Taken DEF TypesRest
<1>7. /\ down' \in Seq(Replies) /\ (~ open => down' = <<>>)
      /\ \A i \in 1..Len(down') : down'[i] = "completed" => stops' >= 1
    <2>1. CASE down' = down
        BY <1>1, <2>1 DEF Phases, TypesRest
    <2>2. CASE \E r \in Replies \ {"completed"} : Tell(r)
        BY <2>2, Replied
    <2> QED
        BY <2>1, <2>2
<1>8. TypesBrowser'
    BY Zenon, <1>1 DEF TypesBrowser
<1>9. TypesServer'
    BY <1>1, <1>4 DEF TypesServer
<1>10. TypesRest'
    BY Zenon, <1>1, <1>4, <1>7 DEF TypesRest
<1>11. Enough'
    <2> SUFFICES ASSUME "dropped" \notin happened PROVE Enough'
        BY DEF Enough
    <2>1. ~ Lost /\ Due' = Due
        BY <1>2 DEF Lost, Due
    <2>2. ASSUME NEW i \in 1..Len(up'), up'[i].type \in {"stop", "close"} PROVE Due
        <3>1. i + 1 \in 1..Len(up) /\ up[i+1].type \in {"stop", "close"}
            BY <1>5, <1>6, <2>2
        <3> QED
            BY <1>1, <3>1 DEF Enough
    <2>3. at' = "stopping" => Due /\ stored' >= asked
        <3>1. t \in {"stop", "close"} => 1 \in 1..Len(up) /\ up[1].type \in {"stop", "close"}
            BY <1>5, <1>6
        <3> QED
            BY <1>1, <1>4, <2>1, <3>1 DEF Enough
    <2>4. meeting # 0 => Due /\ uploads[meeting] >= asked
        BY <1>1 DEF Enough
    <2> QED
        BY <2>1, <2>2, <2>3, <2>4 DEF Enough
<1>12. Phases'
    BY <1>1, <1>2, <1>3, <1>7 DEF Phases
<1> QED
    BY <1>4, <1>8, <1>9, <1>10, <1>11, <1>12 DEF LiveInv

\* A message is handled.
LEMMA MessageLives ==
    ASSUME LiveInv,
           OnStart \/ OnChunk \/ SetStatus("pause", "paused") \/ SetStatus("resume", "recording")
           \/ OnStop \/ Disconnect
    PROVE  LiveInv'
<1>1. up \in Seq(Messages) /\ stored \in Nat /\ marked \in {"none", "finalizing"} \cup Ongoing \cup Finished
    BY DEF LiveInv, TypesRest, TypesServer, TypesBrowser
<1>2. ASSUME NEW t, Receive(t), t # "chunk" PROVE up[1].units = 0 /\ stored + up[1].units = stored
    <2>1. Len(up) >= 1 /\ up[1].type = t /\ Len(up) \in Nat
        BY <1>1, <1>2, Taken
    <2> QED
        BY <1>1, <1>2, <2>1 DEF LiveInv, Weights
<1>3. CASE OnStart
    <2>1. "started" \in Replies \ {"completed"} /\ Receive("start") /\ Tell("started")
        BY <1>3 DEF OnStart, Replies
    <2>2. at' = "idle" /\ marked' = "recording" /\ stored' = stored + up[1].units
        BY <1>2, <1>3, <2>1 DEF OnStart, Receive
    <2> QED
        BY <1>3, <2>1, <2>2, MessageTaken DEF OnStart, browser, noted, Ongoing
<1>4. CASE OnChunk
    <2>1. Receive("chunk") /\ at' = "idle" /\ down' = down /\ marked' = marked
        BY <1>4 DEF OnChunk, Receive
    <2>2. Head(up) = up[1]
        BY <1>1, <2>1, Taken
    <2>3. stored' = stored + up[1].units
        BY <1>4, <2>2 DEF OnChunk
    <2> QED
        BY <1>1, <1>4, <2>1, <2>3, MessageTaken DEF OnChunk, browser, noted
<1>5. ASSUME NEW t \in {"pause", "resume"}, NEW s \in {"paused", "recording"}, SetStatus(t, s) PROVE LiveInv'
    <2>1. s \in Replies \ {"completed"} /\ Receive(t) /\ Tell(s)
        BY <1>5 DEF SetStatus, Replies
    <2>2. at' = "idle" /\ marked' = s /\ stored' = stored + up[1].units
        BY <1>2, <1>5, <2>1 DEF SetStatus, Receive
    <2>3. UNCHANGED <<ui, rec, heard, sent, flushing, pauses, open, uploads, meeting, stops, asked, happened>>
        BY <1>5 DEF SetStatus, browser, noted
    <2> QED
        BY <2>1, <2>2, <2>3, MessageTaken DEF Ongoing
<1>6. CASE OnStop
    <2>1. "finalizing" \in Replies \ {"completed"} /\ Receive("stop") /\ Tell("finalizing")
        BY <1>6 DEF OnStop, Replies
    <2>2. at' = "stopping" /\ marked' = marked /\ stored' = stored + up[1].units
        BY <1>2, <1>6, <2>1 DEF OnStop, session
    <2> QED
        BY <1>1, <1>6, <2>1, <2>2, MessageTaken DEF OnStop, browser, noted, session
<1>7. CASE Disconnect
    <2>1. Receive("close") /\ down' = down /\ stored' = stored + up[1].units
        BY <1>2, <1>7 DEF Disconnect
    <2>2. at' \in {"idle", "stopping"} /\ marked' \in {marked, "abandoned"}
        BY <1>7, <2>1 DEF Disconnect, EndSession, KeepSession, Receive
    <2> QED
        BY <1>1, <1>7, <2>1, <2>2, MessageTaken DEF Disconnect, browser, noted, Finished
<1> QED
    BY <1>3, <1>4, <1>5, <1>6, <1>7

\* The consumer goes on with what it took.
LEMMA WorkLives ==
    ASSUME LiveInv, Finalize \/ Refused \/ Upload \/ Break \/ LinkMeeting
    PROVE  LiveInv'
<1>1. TypesBrowser /\ TypesServer /\ TypesRest /\ Phases /\ Enough
    BY DEF LiveInv
<1>2. /\ UNCHANGED <<ui, rec, heard, sent, flushing, pauses, open, up, stored, stops, asked>>
      /\ at \in {"stopping", "uploading", "linking"} /\ at' # "gone"
      /\ at' \in {"idle", "uploading", "linking"}
    BY DEF Finalize, Refused, Upload, Break, LinkMeeting, browser, socket, noted, session
<1>3. happened \subseteq happened' /\ ("dropped" \in happened' => "dropped" \in happened)
      /\ happened' \subseteq {"dropped", "crashed", "refused", "broke"}
    BY <1>1 DEF Finalize, Refused, Upload, Break, LinkMeeting, noted, TypesRest
<1>4. (Lost' <=> Lost) /\ (Due' <=> Due)
    BY <1>2, <1>3 DEF Lost, Due
<1>5. ui # "idle"
    BY <1>1, <1>2 DEF Phases
<1>6. Levels' /\ Weights'
    BY <1>2, <1>4, LevelsKept
<1>7. TypesBrowser'
    BY Zenon, <1>1, <1>2 DEF TypesBrowser
<1>8. "dropped" \notin happened => Due /\ stored >= asked
    BY <1>1, <1>2 DEF Enough
<1>9. /\ down' \in Seq(Replies) /\ (~ open => down' = <<>>)
      /\ \A i \in 1..Len(down') : down'[i] = "completed" => stops' >= 1
    <2>1. CASE Finalize \/ Upload
        BY <1>1, <1>2, <2>1 DEF Finalize, Upload, socket, Phases, TypesRest
    <2>2. CASE Refused \/ Break
        <3>1. Tell("error") /\ "error" \in Replies
            BY <2>2 DEF Refused, Break, Replies
        <3> QED
            BY <1>2, <3>1, Replied
    <2>3. CASE LinkMeeting
        <3>1. Tell("completed") /\ "completed" \in Replies
            BY <2>3 DEF LinkMeeting, Replies
        <3>2. open => stops >= 1
            BY <1>1, <1>8 DEF Phases, Lost, Due, TypesRest
        <3> QED
            BY <1>2, <3>1, <3>2, Replied
    <2> QED
        BY <2>1, <2>2, <2>3
<1>10. TypesRest'
    BY Zenon, <1>1, <1>2, <1>3, <1>6, <1>9 DEF TypesRest
<1>11. \A i \in 1..Len(up') : "dropped" \notin happened /\ up'[i].type \in {"stop", "close"} => Due
    BY <1>1, <1>2 DEF Enough
<1>12. CASE Upload
    <2>1. /\ at' = "linking" /\ marked' = marked /\ meeting' = meeting /\ uploads' = Append(uploads, stored)
          /\ stored > 0
        BY <1>12 DEF Upload
    <2>2. stored \in 1..MaxHeard /\ uploads \in Seq(1..MaxHeard) /\ meeting \in 0..Len(uploads)
        BY <1>1, <2>1 DEF TypesServer, TypesBrowser
    <2>3. /\ uploads' \in Seq(1..MaxHeard) /\ uploads' # <<>> /\ Len(uploads') = Len(uploads) + 1
          /\ uploads'[Len(uploads')] = stored
          /\ \A i \in 1..Len(uploads) : uploads'[i] = uploads[i]
        BY <2>1, <2>2, AppendProperties
    <2>4. meeting' \in 0..Len(uploads') /\ (meeting # 0 => uploads'[meeting] = uploads[meeting])
        BY <2>1, <2>2, <2>3
    <2>5. TypesServer'
        BY <1>1, <1>2, <2>1, <2>3, <2>4 DEF TypesServer
    <2>6. Enough'
        BY <1>1, <1>2, <1>3, <1>4, <1>8, <1>11, <2>1, <2>3, <2>4 DEF Enough
    <2>7. Phases'
        BY <1>1, <1>2, <1>4, <1>5, <1>9, <2>1, <2>3 DEF Phases
    <2> QED
        BY <1>6, <1>7, <1>10, <2>5, <2>6, <2>7 DEF LiveInv
<1>13. CASE LinkMeeting
    <2>1. /\ at = "linking" /\ at' = "idle" /\ marked' = "completed" /\ meeting' = Len(uploads) /\ uploads' = uploads
        BY <1>13 DEF LinkMeeting
    <2>2. uploads # <<>> /\ uploads \in Seq(1..MaxHeard)
        BY <1>1, <2>1 DEF Phases, TypesServer
    <2>3. Len(uploads) \in Nat /\ Len(uploads) # 0
        BY <2>2
    <2>4. TypesServer'
        BY <1>1, <1>2, <2>1, <2>3 DEF TypesServer, Finished
    <2>5. Enough'
        BY <1>1, <1>2, <1>3, <1>4, <1>8, <1>11, <2>1 DEF Enough
    <2>6. Phases'
        BY <1>1, <1>2, <1>4, <1>5, <1>9, <2>1, <2>3 DEF Phases
    <2> QED
        BY <1>6, <1>7, <1>10, <2>4, <2>5, <2>6 DEF LiveInv
<1>14. CASE Finalize \/ Refused \/ Break
    <2>1. /\ at' \in {"idle", "uploading"} /\ marked' \in {marked, "finalizing", "failed"}
          /\ UNCHANGED <<meeting, uploads>>
        BY <1>14 DEF Finalize, Refused, Break, session
    <2>2. TypesServer'
        BY <1>1, <1>2, <2>1 DEF TypesServer, Finished
    <2>3. Enough'
        BY <1>1, <1>2, <1>3, <1>4, <1>8, <1>11, <2>1 DEF Enough
    <2>4. Phases'
        BY <1>1, <1>2, <1>4, <1>5, <1>9, <2>1 DEF Phases
    <2> QED
        BY <1>6, <1>7, <1>10, <2>2, <2>3, <2>4 DEF LiveInv
<1> QED
    BY <1>12, <1>13, <1>14

\* The connection is lost with what it still carried.
LEMMA DropLives == ASSUME LiveInv, Drop PROVE LiveInv'
<1>1. PICK k \in 0..Len(up) : up' = Append(SubSeq(up, 1, k), Message("close"))
    BY DEF Drop
<1>2. /\ open /\ down' = <<>> /\ open' = FALSE /\ ui' \in {ui, "error"}
      /\ happened' = happened \cup {"dropped"}
      /\ UNCHANGED <<rec, heard, sent, flushing, pauses, at, marked, stored, uploads, meeting, stops, asked>>
    BY DEF Drop, session
<1>3. TypesBrowser /\ TypesServer /\ TypesRest /\ Phases /\ Weights /\ Levels
    BY DEF LiveInv
<1>4. PICK level : Counts(level)
    BY <1>3 DEF Levels
<1>5. PICK m \in Messages : m = Message("close") /\ m.type = "close" /\ m.units = 0
    BY MessageTypes DEF Types
<1>6. up \in Seq(Messages) /\ k \in Nat /\ Len(up) \in Nat
    BY <1>3 DEF TypesRest
<1>7. /\ SubSeq(up, 1, k) \in Seq(Messages) /\ Len(SubSeq(up, 1, k)) = k
      /\ \A i \in 1..k : SubSeq(up, 1, k)[i] = up[i]
    BY <1>6
<1>8. /\ up' \in Seq(Messages) /\ Len(up') = k + 1 /\ up'[k + 1] = m
      /\ \A i \in 1..k : up'[i] = up[i]
    BY <1>1, <1>5, <1>7, AppendProperties
<1>9. /\ level \in [0..Len(up) -> 0..sent] /\ level[0] = stored
      /\ \A i \in 1..Len(up) : level[i] = level[i-1] + up[i].units
    BY <1>4 DEF Counts
<1>10. Levels'
    <2>1. PICK rest : rest = [i \in 0..(k+1) |-> IF i = k + 1 THEN level[k] ELSE level[i]]
        OBVIOUS
    <2>2. rest \in [0..(k+1) -> 0..sent'] /\ rest[0] = stored'
        BY <1>2, <1>6, <1>9, <2>1
    <2>3. \A i \in 1..(k+1) : rest[i] = rest[i-1] + up'[i].units
        <3> SUFFICES ASSUME NEW i \in 1..(k+1) PROVE rest[i] = rest[i-1] + up'[i].units
            OBVIOUS
        <3>1. CASE i \in 1..k
            BY <1>6, <1>8, <1>9, <2>1, <3>1
        <3>2. CASE i = k + 1
            <4>1. rest[i] = level[k] /\ rest[i-1] = level[k] /\ up'[i].units = 0
                BY <1>5, <1>6, <1>8, <2>1, <3>2
            <4>2. level[k] \in Nat
                BY <1>3, <1>6, <1>9 DEF TypesBrowser
            <4> QED
                BY <4>1, <4>2
        <3> QED
            BY <1>6, <3>1, <3>2
    <2>4. Lost'
        BY <1>2 DEF Lost
    <2>5. Counts(rest)'
        BY <1>8, <2>2, <2>3, <2>4 DEF Counts
    <2> QED
        BY <2>5 DEF Levels
<1>11. Weights'
    <2> SUFFICES ASSUME NEW i \in 1..(k+1), up'[i].type # "chunk" PROVE up'[i].units = 0
        BY <1>8 DEF Weights
    <2>1. CASE i \in 1..k
        BY <1>3, <1>6, <1>8, <2>1 DEF Weights
    <2>2. CASE i = k + 1
        BY <1>5, <1>8, <2>2
    <2> QED
        BY <1>6, <2>1, <2>2
<1>12. TypesBrowser'
    BY Zenon, <1>2, <1>3 DEF TypesBrowser
<1>13. TypesServer'
    BY <1>2, <1>3 DEF TypesServer
<1>14. TypesRest'
    <2>1. down' \in Seq(Replies) /\ happened' \subseteq {"dropped", "crashed", "refused", "broke"}
          /\ stops' \in Nat /\ asked' \in 0..sent'
        BY <1>2, <1>3 DEF TypesRest
    <2> QED
        BY Zenon, <1>2, <1>8, <2>1 DEF TypesRest
<1>15. Enough'
    BY <1>2 DEF Enough
<1>16. Phases'
    BY <1>2, <1>3 DEF Phases, Lost
<1> QED
    BY <1>10, <1>11, <1>12, <1>13, <1>14, <1>15, <1>16 DEF LiveInv

\* The process ends: nothing is taken or sent any more.
LEMMA CrashLives == ASSUME LiveInv, Crash PROVE LiveInv'
<1>1. /\ ui # "idle" /\ at # "gone" /\ at' = "gone" /\ up' = <<>> /\ down' = <<>> /\ open' = FALSE
      /\ ui' \in (IF open THEN {ui, "error"} ELSE {ui}) /\ happened' = happened \cup {"crashed"}
      /\ UNCHANGED <<rec, heard, sent, flushing, pauses, marked, stored, uploads, meeting, stops, asked>>
    BY DEF Crash, session
<1>2. TypesBrowser /\ TypesServer /\ TypesRest /\ Phases /\ Enough
    BY DEF LiveInv
<1>3. Len(up') = 0 /\ up' \in Seq(Messages) /\ down' \in Seq(Replies) /\ Len(down') = 0
    BY <1>1
<1>4. Levels' /\ Weights'
    <2>1. PICK level : level = [i \in 0..0 |-> stored]
        OBVIOUS
    <2>2. level \in [0..0 -> 0..sent'] /\ level[0] = stored'
        BY <1>1, <1>2, <2>1 DEF TypesServer
    <2>3. Counts(level)'
        BY <1>1, <1>3, <2>2 DEF Counts, Lost
    <2> QED
        BY <1>3, <2>3 DEF Levels, Weights
<1>5. TypesBrowser'
    BY Zenon, <1>1, <1>2 DEF TypesBrowser
<1>6. TypesServer'
    BY <1>1, <1>2 DEF TypesServer
<1>7. TypesRest'
    <2>1. happened' \subseteq {"dropped", "crashed", "refused", "broke"} /\ stops' \in Nat /\ asked' \in 0..sent'
        BY <1>1, <1>2 DEF TypesRest
    <2> QED
        BY Zenon, <1>1, <1>3, <2>1 DEF TypesRest
<1>8. Due => Due'
    BY <1>1, <1>2 DEF Due, Phases
<1>9. Enough'
    BY <1>1, <1>2, <1>3, <1>8 DEF Enough
<1>10. Phases'
    BY <1>1, <1>2, <1>3 DEF Phases, Lost
<1> QED
    BY <1>4, <1>5, <1>6, <1>7, <1>9, <1>10 DEF LiveInv

\* Every step keeps the invariant.
LEMMA LiveInvNext == LiveInv /\ [LiveNext]_liveVars => LiveInv'
<1> SUFFICES ASSUME LiveInv, [LiveNext]_liveVars PROVE LiveInv'
    OBVIOUS
<1>1. CASE UNCHANGED liveVars
    <2>1. UNCHANGED <<ui, rec, heard, sent, flushing, pauses, open, up, down, at, marked, stored, uploads,
                      meeting, stops, asked, happened>>
        BY <1>1 DEF liveVars, browser, socket, session, noted
    <2>2. Levels' /\ Weights'
        BY <2>1, LevelsKept DEF Lost
    <2>3. TypesBrowser' /\ TypesServer' /\ TypesRest'
        BY Zenon, <2>1 DEF LiveInv, TypesBrowser, TypesServer, TypesRest
    <2>4. Enough' /\ Phases'
        BY <2>1 DEF LiveInv, Enough, Phases, Due, Lost
    <2> QED
        BY <2>2, <2>3, <2>4 DEF LiveInv
<1>2. CASE Browser
    BY <1>2, StartSends, HearSends, DataSends, PauseSends, StopSends, LeaveSends, ReplySends DEF Browser
<1>3. CASE Consumer
    BY <1>3, MessageLives, WorkLives DEF Consumer
<1> QED
    BY <1>1, <1>2, <1>3, DropLives, CrashLives DEF LiveNext

\* It holds throughout.
LEMMA LiveAlways == LiveSpec => []LiveInv
BY LiveInvInit, LiveInvNext, PTL DEF LiveSpec

\* TypeOK: the recorder of the browser, the socket and the session of the
\* consumer keep their types; the file never holds more than was sent.
THEOREM LiveTypeCorrect == LiveSpec => []LiveTypes
<1>1. LiveInv => LiveTypes
    BY DEF LiveInv, TypesBrowser, TypesServer, TypesRest, LiveTypes, Messages, Types, Replies
<1> QED
    BY <1>1, LiveAlways, PTL

\* CompletedHoldsSent, for every length of a recording and every interleaving of
\* the recorder, the consumer (consumer.receive, _stop) and the connection: the
\* file that service.finalize uploads has all the browser sent before Stop.
THEOREM MeetingHoldsSent == LiveSpec => []CompletedHoldsSent
<1>1. LiveInv => CompletedHoldsSent
    BY DEF LiveInv, Phases, Enough, CompletedHoldsSent
<1> QED
    BY <1>1, LiveAlways, PTL

-----------------------------------------------------------------------------
(* OneMeeting.                                                             *)

\* The session is at its end, or past it.
Over == at \in {"stopping", "uploading", "linking"} \/ marked \in {"finalizing"} \cup Finished

\* After the end of a recording only audio and the close are still to come.
Quiet ==
    /\ \A i \in 1..Len(up) : up[i].type \in {"chunk", "close"}
    /\ ~ open \/ stops >= 1

\* In the queue, nothing but audio and the close follows a stop, and nothing the close.
Ends ==
    /\ \A i, j \in 1..Len(up) : i < j /\ up[i].type = "stop" => up[j].type \in {"chunk", "close"}
    /\ \A i \in 1..Len(up) : up[i].type = "close" => i = Len(up) /\ ~ open
    /\ \A i \in 1..Len(up) : up[i].type = "stop" => stops >= 1

\* A session that is not at its end has no meeting, and one that is has one at most.
Uploaded ==
    /\ Len(uploads) <= 1
    /\ marked \notin {"finalizing", "completed"} => Len(uploads) = 0
    /\ marked = "completed" => Len(uploads) = 1 /\ meeting = 1
    /\ at \in {"stopping", "uploading"} => Len(uploads) = 0
    /\ at \in {"uploading", "linking"} => marked = "finalizing"
    /\ at = "linking" => Len(uploads) = 1

\* The inductive invariant of OneMeeting, with LiveInv.
OneInv == stops <= 1 => (Over => Quiet) /\ Ends /\ Uploaded

\* Something is sent while the session stays as it is.
LEMMA OneSent ==
    ASSUME LiveInv, OneInv, NEW m \in Messages, Send(m),
           UNCHANGED <<at, marked, uploads, meeting>>,
           stops' \in {stops, stops + 1}, open' \in {open, FALSE},
           m.type = "close" => ~ open',
           m.type = "stop" => stops' = stops + 1,
           m.type \notin {"chunk", "close", "stop"} => stops = 0
    PROVE  OneInv'
<1> SUFFICES ASSUME stops' <= 1 PROVE (Over => Quiet)' /\ Ends' /\ Uploaded'
    BY DEF OneInv
<1>1. up \in Seq(Messages) /\ stops \in Nat /\ open \in BOOLEAN
    BY DEF LiveInv, TypesRest
<1>2. (Over => Quiet) /\ Ends /\ Uploaded /\ stops' \in Nat /\ stops <= stops'
    BY <1>1 DEF OneInv
<1>3. Uploaded' /\ (Over' <=> Over)
    BY <1>2 DEF Uploaded, Over
<1>4. CASE ~ open
    <2>a. up' = up
        BY <1>4 DEF Send
    <2>b. open' = FALSE
        BY <1>1, <1>4
    <2>1. up' = up /\ ~ open'
        BY <2>a, <2>b
    <2>2. Ends'
        BY <1>1, <1>2, <2>1 DEF Ends
    <2> QED
        BY <1>2, <1>3, <2>1, <2>2 DEF Quiet
<1>5. CASE open
    <2>1. PICK n \in Nat : n = Len(up)
        BY <1>1
    <2>2. /\ Len(up') = n + 1 /\ up'[n + 1] = m
          /\ \A i \in 1..n : up'[i] = up[i]
        BY <1>1, <1>5, <2>1, Sent
    <2>3. \A i \in 1..(n+1) : i \in 1..n \/ i = n + 1
        OBVIOUS
    <2>4. \A i \in 1..n : up[i].type # "close" /\ (up[i].type = "stop" => stops >= 1)
        BY <1>2, <1>5, <2>1 DEF Ends
    <2>5. m.type \in Types
        BY DEF Messages
    <2>6. ASSUME stops >= 1 PROVE m.type \in {"chunk", "close"}
        BY <1>1, <1>2, <2>5, <2>6 DEF Types
    <2>7. (Over => Quiet)'
        <3> SUFFICES ASSUME Over PROVE Quiet'
            BY <1>3
        <3>1. stops >= 1 /\ \A i \in 1..n : up[i].type \in {"chunk", "close"}
            BY <1>2, <1>5, <2>1 DEF Quiet
        <3>2. \A i \in 1..(n+1) : up'[i].type \in {"chunk", "close"}
            BY <2>2, <2>3, <2>6, <3>1
        <3>3. stops' >= 1
            BY <1>1, <1>2, <3>1
        <3> QED
            BY <2>2, <3>2, <3>3 DEF Quiet
    <2>8. \A i, j \in 1..(n+1) : i < j /\ up'[i].type = "stop" => up'[j].type \in {"chunk", "close"}
        <3> SUFFICES ASSUME NEW i \in 1..(n+1), NEW j \in 1..(n+1), i < j, up'[i].type = "stop"
                     PROVE  up'[j].type \in {"chunk", "close"}
            OBVIOUS
        <3>1. i \in 1..n /\ up[i].type = "stop"
            BY <2>2
        <3>2. CASE j \in 1..n
            BY <1>2, <2>1, <2>2, <3>1, <3>2 DEF Ends
        <3>3. CASE j = n + 1
            BY <2>2, <2>4, <2>6, <3>1, <3>3
        <3> QED
            BY <2>3, <3>2, <3>3
    <2>9. \A i \in 1..(n+1) : up'[i].type = "close" => i = n + 1 /\ ~ open'
        BY <2>2, <2>3, <2>4
    <2>10. \A i \in 1..(n+1) : up'[i].type = "stop" => stops' >= 1
        BY <1>1, <1>2, <2>2, <2>3, <2>4
    <2>11. Ends'
        BY <2>2, <2>8, <2>9, <2>10 DEF Ends
    <2> QED
        BY <1>3, <2>7, <2>11
<1> QED
    BY <1>1, <1>4, <1>5

\* Something is taken, and the session says what that made of it.
LEMMA OneTaken ==
    ASSUME LiveInv, OneInv, NEW t, Receive(t), UNCHANGED <<open, uploads, meeting, stops>>, stops <= 1,
           at' \in {"idle", "stopping"},
           at' = "idle" => \/ marked' = marked
                           \/ marked' \in Ongoing /\ t \notin {"chunk", "close"}
                           \/ marked' = "abandoned" /\ marked \in Ongoing /\ t = "close",
           at' = "stopping" => marked' = marked /\ (t = "stop" \/ (t = "close" /\ marked \in Ongoing))
    PROVE  OneInv'
<1>1. up \in Seq(Messages) /\ stops \in Nat /\ uploads \in Seq(1..MaxHeard)
    BY DEF LiveInv, TypesRest, TypesServer
<1>2. (Over => Quiet) /\ Ends /\ Uploaded /\ at = "idle"
    BY DEF OneInv, Receive
<1>3. PICK n \in Nat : n = Len(up)
    BY <1>1
<1>4. n >= 1 /\ Len(up') = n - 1 /\ up[1].type = t /\ \A i \in 1..(n-1) : up'[i] = up[i + 1]
    BY <1>1, <1>3, Taken
<1>5. \A i \in 1..(n-1) : i + 1 \in 1..n
    OBVIOUS
<1>6. Ends'
    <2>1. \A i, j \in 1..(n-1) : i < j /\ up'[i].type = "stop" => up'[j].type \in {"chunk", "close"}
        <3> SUFFICES ASSUME NEW i \in 1..(n-1), NEW j \in 1..(n-1), i < j, up'[i].type = "stop"
                     PROVE  up'[j].type \in {"chunk", "close"}
            OBVIOUS
        <3>1. PICK ii, jj \in 1..n : ii = i + 1 /\ jj = j + 1 /\ ii < jj
            BY <1>5
        <3> QED
            BY <1>2, <1>3, <1>4, <3>1 DEF Ends
    <2>2. \A i \in 1..(n-1) : up'[i].type = "close" => i = n - 1 /\ ~ open'
        <3> SUFFICES ASSUME NEW i \in 1..(n-1), up'[i].type = "close" PROVE i = n - 1 /\ ~ open
            OBVIOUS
        <3>1. PICK ii \in 1..n : ii = i + 1
            BY <1>5
        <3>2. ii = n /\ ~ open
            BY <1>2, <1>3, <1>4, <3>1 DEF Ends
        <3> QED
            BY <3>1, <3>2
    <2>3. \A i \in 1..(n-1) : up'[i].type = "stop" => stops' >= 1
        BY <1>2, <1>3, <1>4, <1>5 DEF Ends
    <2> QED
        BY <1>4, <2>1, <2>2, <2>3 DEF Ends
<1>7. ~ Over => marked \notin {"finalizing", "completed"} /\ Len(uploads) = 0
    BY <1>2 DEF Over, Uploaded, Finished
<1>8. CASE at' = "idle" /\ marked' = marked
    <2>1. Uploaded'
        BY <1>2, <1>8 DEF Uploaded
    <2>2. Over' => Quiet'
        BY <1>2, <1>3, <1>4, <1>5, <1>8 DEF Over, Quiet
    <2> QED
        BY <1>6, <2>1, <2>2 DEF OneInv
<1>9. CASE at' = "idle" /\ marked' \in Ongoing /\ t \notin {"chunk", "close"}
    <2>1. ~ Over
        BY <1>2, <1>3, <1>4, <1>9 DEF Quiet
    <2>2. Uploaded'
        BY <1>7, <1>9, <2>1 DEF Uploaded, Ongoing
    <2>3. ~ Over'
        BY <1>9 DEF Over, Ongoing, Finished
    <2> QED
        BY <1>6, <2>2, <2>3 DEF OneInv
<1>10. CASE t = "close" /\ marked \in Ongoing /\ (at' = "idle" => marked' = "abandoned") /\ (at' = "stopping" => marked' = marked)
    <2>1. ~ Over
        BY <1>2, <1>10 DEF Over, Ongoing, Finished
    <2>2. Uploaded'
        BY <1>7, <1>10, <2>1 DEF Uploaded, Ongoing
    <2>3. n = 1 /\ ~ open
        BY <1>2, <1>3, <1>4, <1>10 DEF Ends
    <2>4. Quiet'
        BY <1>4, <2>3 DEF Quiet
    <2> QED
        BY <1>6, <2>2, <2>4 DEF OneInv
<1>11. CASE at' = "stopping" /\ t = "stop" /\ marked' = marked
    <2>1. ~ Over
        BY <1>2, <1>3, <1>4, <1>11 DEF Quiet
    <2>2. Uploaded'
        BY <1>7, <1>11, <2>1 DEF Uploaded
    <2>3. stops >= 1
        BY <1>2, <1>3, <1>4, <1>11 DEF Ends
    <2>4. \A i \in 1..(n-1) : up'[i].type \in {"chunk", "close"}
        <3> TAKE i \in 1..(n-1)
        <3>1. PICK ii \in 1..n : ii = i + 1 /\ 1 < ii /\ 1 \in 1..n
            BY <1>5
        <3> QED
            BY <1>2, <1>3, <1>4, <1>11, <3>1 DEF Ends
    <2>5. Quiet'
        BY <1>4, <2>3, <2>4 DEF Quiet
    <2> QED
        BY <1>6, <2>2, <2>5 DEF OneInv
<1> QED
    BY <1>8, <1>9, <1>10, <1>11

\* Every step keeps it.
LEMMA OneInvNext == LiveInv /\ OneInv /\ [LiveNext]_liveVars => OneInv'
<1> SUFFICES ASSUME LiveInv, OneInv, [LiveNext]_liveVars, stops' <= 1 PROVE OneInv'
    BY DEF OneInv
<1>1. TypesBrowser /\ TypesServer /\ TypesRest /\ Phases /\ stops \in Nat
    BY DEF LiveInv, TypesRest
<1>2. CASE UNCHANGED <<up, open, stops, at, marked, uploads, meeting>>
    BY <1>2 DEF OneInv, Over, Quiet, Ends, Uploaded
<1>3. CASE UNCHANGED liveVars
    BY <1>2, <1>3 DEF liveVars, socket, session, noted
<1>4. CASE Start
    <2>1. /\ marked = "none" /\ stops = 0 /\ uploads = <<>> /\ at = "idle" /\ ui = "idle"
          /\ up' = <<Message("start")>> /\ Message("start").type = "start"
          /\ UNCHANGED <<stops, at, marked, uploads, meeting>>
        BY <1>1, <1>4, MessageTypes DEF Start, Phases, session, noted, Types
    <2>2. Len(up') = 1 /\ up'[1].type = "start" /\ Len(uploads) = 0
        BY <2>1
    <2>3. Uploaded' /\ ~ Over'
        BY <2>1, <2>2 DEF Uploaded, Over, Finished
    <2>4. Ends'
        BY <2>2 DEF Ends
    <2> QED
        BY <2>3, <2>4 DEF OneInv
<1>5. CASE Hear
    BY <1>2, <1>5 DEF Hear, socket, session, noted
<1>6. CASE Timeslice \/ Flush
    <2>1. /\ Send(Chunk(heard - sent)) /\ heard > sent
          /\ UNCHANGED <<open, at, marked, uploads, meeting, stops>>
        BY <1>6 DEF Timeslice, Flush, SendData, session, noted
    <2>2. heard - sent \in 0..MaxHeard
        BY <1>1, <2>1 DEF TypesBrowser
    <2>3. PICK m \in Messages : m = Chunk(heard - sent) /\ m.type = "chunk"
        BY <2>2, MessageTypes
    <2> QED
        BY <2>1, <2>3, OneSent
<1>7. CASE Pause \/ Resume
    <2>1. PICK t \in {"pause", "resume"} : Send(Message(t))
        BY <1>7 DEF Pause, Resume
    <2>2. PICK m \in Messages : m = Message(t) /\ m.type = t
        BY MessageTypes DEF Types
    <2>3. rec # "inactive" /\ UNCHANGED <<open, at, marked, uploads, meeting, stops>>
        BY <1>7 DEF Pause, Resume, session, noted
    <2>4. stops = 0
        BY <1>1, <2>3 DEF Phases
    <2> QED
        BY <2>1, <2>2, <2>3, <2>4, OneSent
<1>8. CASE Stop
    <2>1. Send(Message("stop")) /\ stops' = stops + 1 /\ UNCHANGED <<open, at, marked, uploads, meeting>>
        BY <1>8 DEF Stop, NoteStop, session
    <2>2. PICK m \in Messages : m = Message("stop") /\ m.type = "stop"
        BY MessageTypes DEF Types
    <2> QED
        BY <2>1, <2>2, OneSent
<1>9. ASSUME CleanUp, UNCHANGED <<at, marked, uploads, meeting, stops>> PROVE OneInv'
    <2>1. PICK m \in Messages : m = Message("close") /\ m.type = "close"
        BY MessageTypes DEF Types
    <2> QED
        BY <1>9, <2>1, OneSent DEF CleanUp
<1>10. CASE Leave
    BY <1>9, <1>10 DEF Leave, session
<1>11. CASE OnMessage
    BY <1>2, <1>9, <1>11 DEF OnMessage, session, noted
<1>12. CASE OnStart \/ OnChunk \/ SetStatus("pause", "paused") \/ SetStatus("resume", "recording")
            \/ OnStop \/ Disconnect
    <2>1. UNCHANGED <<open, uploads, meeting, stops>> /\ stops <= 1
        BY <1>12 DEF OnStart, OnChunk, SetStatus, OnStop, Disconnect, session, noted
    <2>2. PICK t : /\ Receive(t)
                   /\ at' \in {"idle", "stopping"}
                   /\ at' = "idle" => \/ marked' = marked
                                      \/ marked' \in Ongoing /\ t \notin {"chunk", "close"}
                                      \/ marked' = "abandoned" /\ marked \in Ongoing /\ t = "close"
                   /\ at' = "stopping" => marked' = marked /\ (t = "stop" \/ (t = "close" /\ marked \in Ongoing))
        <3>a. CASE OnStart
            <4>1. Receive("start") /\ at = "idle" /\ at' = at /\ marked' = "recording"
                BY <3>a DEF OnStart, Receive
            <4>2. marked' \in Ongoing
                BY <4>1 DEF Ongoing
            <4> QED
                BY <4>1, <4>2
        <3>b. CASE OnChunk
            <4>1. Receive("chunk") /\ at = "idle" /\ at' = at /\ marked' = marked
                BY <3>b DEF OnChunk, Receive
            <4> QED
                BY <4>1
        <3>c. CASE OnStop
            <4>1. Receive("stop") /\ at' = "stopping" /\ marked' = marked
                BY <3>c DEF OnStop, session
            <4> QED
                BY <4>1
        <3>1. CASE OnStart \/ OnChunk \/ OnStop
            BY <3>1, <3>a, <3>b, <3>c
        <3>2. CASE SetStatus("pause", "paused") \/ SetStatus("resume", "recording")
            BY <3>2 DEF SetStatus, Receive, Ongoing
        <3>3. CASE Disconnect
            BY <3>3 DEF Disconnect, EndSession, KeepSession, Receive
        <3> QED
            BY <1>12, <3>1, <3>2, <3>3
    <2> QED
        BY <2>1, <2>2, OneTaken
<1>13. CASE Finalize \/ Refused \/ Upload \/ Break \/ LinkMeeting
    <2>1. UNCHANGED <<up, open, stops>> /\ stops <= 1
        BY <1>13 DEF Finalize, Refused, Upload, Break, LinkMeeting, socket, noted
    <2>2. Ends /\ Quiet /\ Uploaded
        BY <1>13, <2>1 DEF OneInv, Over, Finalize, Refused, Upload, Break, LinkMeeting
    <2>3. Ends' /\ Quiet'
        BY <2>1, <2>2 DEF Ends, Quiet
    <2>4. CASE Upload
        <3>1. /\ at = "uploading" /\ at' = "linking" /\ uploads' = Append(uploads, stored) /\ stored > 0
              /\ UNCHANGED <<marked, meeting>>
            BY <2>4 DEF Upload
        <3>2. stored \in 1..MaxHeard /\ uploads \in Seq(1..MaxHeard)
            BY <1>1, <3>1 DEF TypesServer, TypesBrowser
        <3>3. Len(uploads') = Len(uploads) + 1
            BY <3>1, <3>2, AppendProperties
        <3>4. Uploaded'
            BY <2>2, <3>1, <3>3 DEF Uploaded
        <3> QED
            BY <2>3, <3>4 DEF OneInv
    <2>5. CASE ~ Upload
        <3>1. Uploaded'
            BY <1>13, <2>2, <2>5 DEF Finalize, Refused, Break, LinkMeeting, Uploaded, session
        <3> QED
            BY <2>3, <3>1 DEF OneInv
    <2> QED
        BY <2>4, <2>5
<1>14. CASE Drop
    <2>1. PICK k \in 0..Len(up) : up' = Append(SubSeq(up, 1, k), Message("close"))
        BY <1>14 DEF Drop
    <2>2. /\ open /\ open' = FALSE /\ UNCHANGED <<at, marked, uploads, meeting, stops>>
        BY <1>14 DEF Drop, session
    <2>3. PICK m \in Messages : m = Message("close") /\ m.type = "close"
        BY MessageTypes DEF Types
    <2>4. up \in Seq(Messages) /\ k \in Nat /\ Len(up) \in Nat
        BY <1>1 DEF TypesRest
    <2>5. /\ SubSeq(up, 1, k) \in Seq(Messages) /\ Len(SubSeq(up, 1, k)) = k
          /\ \A i \in 1..k : SubSeq(up, 1, k)[i] = up[i]
        BY <2>4
    <2>6. /\ Len(up') = k + 1 /\ up'[k + 1] = m
          /\ \A i \in 1..k : up'[i] = up[i]
        BY <2>1, <2>3, <2>5, AppendProperties
    <2>7. \A i \in 1..(k+1) : i \in 1..k \/ i = k + 1
        BY <2>4
    <2>8. (Over => Quiet) /\ Ends /\ Uploaded
        BY <2>2 DEF OneInv
    <2>9. \A i \in 1..k : i \in 1..Len(up) /\ up[i].type # "close"
        BY <2>2, <2>4, <2>8 DEF Ends
    <2>10. Uploaded' /\ (Over' <=> Over)
        BY <2>2, <2>8 DEF Uploaded, Over
    <2>11. Over' => Quiet'
        BY <2>2, <2>3, <2>6, <2>7, <2>8, <2>9, <2>10 DEF Quiet
    <2>12. Ends'
        <3>1. \A i, j \in 1..(k+1) : i < j /\ up'[i].type = "stop" => up'[j].type \in {"chunk", "close"}
            <4> SUFFICES ASSUME NEW i \in 1..(k+1), NEW j \in 1..(k+1), i < j, up'[i].type = "stop"
                         PROVE  up'[j].type \in {"chunk", "close"}
                OBVIOUS
            <4>1. i \in 1..k /\ up[i].type = "stop"
                BY <2>3, <2>6, <2>7
            <4>2. CASE j \in 1..k
                BY <2>6, <2>8, <2>9, <4>1, <4>2 DEF Ends
            <4>3. CASE j = k + 1
                BY <2>3, <2>6, <4>3
            <4> QED
                BY <2>7, <4>2, <4>3
        <3>2. \A i \in 1..(k+1) : up'[i].type = "close" => i = k + 1 /\ ~ open'
            BY <2>2, <2>6, <2>7, <2>9
        <3>3. \A i \in 1..(k+1) : up'[i].type = "stop" => stops' >= 1
            BY <2>2, <2>3, <2>6, <2>7, <2>8, <2>9 DEF Ends
        <3> QED
            BY <2>6, <3>1, <3>2, <3>3 DEF Ends
    <2> QED
        BY <2>10, <2>11, <2>12 DEF OneInv
<1>15. CASE Crash
    <2>1. /\ up' = <<>> /\ ~ open' /\ at' = "gone" /\ UNCHANGED <<marked, uploads, meeting, stops>>
        BY <1>15 DEF Crash, session
    <2>2. Len(up') = 0
        BY <2>1
    <2>3. Quiet' /\ Ends'
        BY <2>1, <2>2 DEF Quiet, Ends
    <2>4. Uploaded'
        BY <2>1 DEF OneInv, Uploaded
    <2> QED
        BY <2>3, <2>4 DEF OneInv
<1>16. CASE Browser
    BY <1>4, <1>5, <1>6, <1>7, <1>8, <1>10, <1>11, <1>16 DEF Browser
<1>17. CASE Consumer
    BY <1>12, <1>13, <1>17 DEF Consumer
<1> QED
    BY <1>3, <1>14, <1>15, <1>16, <1>17 DEF LiveNext

\* One meeting at most.
THEOREM OneMeetingAtMost == LiveSpec => []OneMeeting
<1>1. LiveInit => OneInv
    <2> SUFFICES ASSUME LiveInit PROVE OneInv
        OBVIOUS
    <2>1. up = <<>> /\ uploads = <<>> /\ Len(up) = 0 /\ Len(uploads) = 0 /\ marked = "none" /\ at = "idle"
        BY DEF LiveInit
    <2> QED
        BY <2>1 DEF OneInv, Over, Ends, Uploaded, Finished
<1>2. LiveInv /\ OneInv => OneMeeting
    <2> SUFFICES ASSUME LiveInv, OneInv, stops <= 1
                 PROVE  /\ Len(uploads) <= 1
                        /\ marked \in {"failed", "abandoned"} => uploads = <<>>
                        /\ marked = "completed" => uploads # <<>> /\ meeting = Len(uploads)
        BY DEF OneMeeting
    <2>1. Uploaded /\ uploads \in Seq(1..MaxHeard)
        BY DEF OneInv, LiveInv, TypesServer
    <2>2. Len(uploads) = 0 <=> uploads = <<>>
        BY <2>1, EmptySeq
    <2> QED
        BY <2>1, <2>2 DEF Uploaded
<1> QED
    BY <1>1, <1>2, LiveAlways, OneInvNext, PTL DEF LiveSpec

-----------------------------------------------------------------------------
(* The safety half of RecordingSettles.                                    *)

\* The consumer makes a meeting of the recording, or is about to.
Saving == at \in {"stopping", "uploading", "linking"}

\* The end of the recording is still in the queue.
Coming == \E i \in 1..Len(up) : up[i].type \in {"stop", "close"}

\* The close is the last message, and the session begins with the first.
Closes ==
    /\ \A i \in 1..Len(up) : up[i].type = "close" => i = Len(up) /\ ~ open
    /\ ~ open /\ up # <<>> => up[Len(up)].type = "close"
    /\ marked = "none" => /\ stored = 0 /\ ~ Saving
                          /\ open => up # <<>>
                          /\ up # <<>> => up[1].type \in {"start", "close"}
    /\ at = "gone" => "crashed" \in happened

\* A session is settled once its last message has been handled.
AtEnd ==
    ~ Excused =>
        /\ marked = "finalizing" => Saving
        /\ ui # "idle" /\ ~ open /\ up = <<>> /\ ~ Saving => marked \in Finished \cup {"none"}

\* What is worth a meeting is one, or will be.
Kept ==
    ~ Excused /\ "dropped" \notin happened =>
        /\ asked >= MinFinalize => uploads # <<>> \/ Coming \/ Saving
        /\ marked \in Finished => uploads # <<>> \/ (Due /\ asked < MinFinalize)

\* The inductive invariant of SettledAtRest, with LiveInv.
RestInv == Closes /\ AtEnd /\ Kept

\* The connection has ended and the consumer has handled everything.
AtRest == ui # "idle" /\ ~ open /\ up = <<>> /\ ~ Saving
\* Then the session is settled and nothing worth a meeting is lost.
SettledAtRest == AtRest => Excused \/ Settled

\* A message is sent at the end of the queue, by somebody who has begun.
LEMMA RestSent ==
    ASSUME LiveInv, RestInv, NEW m \in Messages, Send(m), ui # "idle",
           UNCHANGED <<at, marked, stored, uploads, happened>>,
           open' \in {open, FALSE}, open => (m.type = "close" <=> ~ open'),
           \/ asked' = asked /\ (Due => Due')
           \/ ~ Due /\ Due' /\ (IF open THEN m.type \in {"stop", "close"} ELSE Lost)
    PROVE  RestInv'
<1>1. /\ up \in Seq(Messages) /\ open \in BOOLEAN
      /\ Closes /\ AtEnd /\ Kept
    BY DEF LiveInv, TypesRest, RestInv
<1>2. (Excused' <=> Excused) /\ (Saving' <=> Saving)
    BY DEF Excused, Saving
<1>3. CASE ~ open
    <2>a. up' = up
        BY <1>3 DEF Send
    <2>b. open' = FALSE
        BY <1>1, <1>3
    <2>1. up' = up /\ ~ open'
        BY <2>a, <2>b
    <2>2. Closes'
        BY <1>1, <1>2, <1>3, <2>1 DEF Closes
    <2>3. AtEnd'
        BY <1>1, <1>2, <1>3, <2>1 DEF AtEnd
    <2>4. Coming' <=> Coming
        BY <2>1 DEF Coming
    <2>5. Lost => Excused \/ "dropped" \in happened
        BY <1>1 DEF Lost, Closes, Excused
    <2>6. Kept'
        BY <1>1, <1>2, <1>3, <2>4, <2>5 DEF Kept
    <2> QED
        BY <2>2, <2>3, <2>6 DEF RestInv
<1>4. CASE open
    <2>1. PICK n \in Nat : n = Len(up)
        BY <1>1
    <2>2. /\ Len(up') = n + 1 /\ up'[n + 1] = m /\ up' # <<>>
          /\ \A i \in 1..n : up'[i] = up[i]
        BY <1>1, <1>4, <2>1, Sent
    <2>3. \A i \in 1..(n+1) : i \in 1..n \/ i = n + 1
        OBVIOUS
    <2>4. \A i \in 1..n : up[i].type # "close"
        BY <1>1, <1>4, <2>1 DEF Closes
    <2>5. Closes'
        <3>1. \A i \in 1..(n+1) : up'[i].type = "close" => i = n + 1 /\ ~ open'
            BY <1>4, <2>2, <2>3, <2>4
        <3>2. ~ open' => up'[n + 1].type = "close"
            BY <1>4, <2>2
        <3>3. marked = "none" => up'[1].type \in {"start", "close"}
            <4> SUFFICES ASSUME marked = "none" PROVE up'[1].type \in {"start", "close"}
                OBVIOUS
            <4>1. up # <<>> /\ up[1].type \in {"start", "close"}
                BY <1>1, <1>4 DEF Closes
            <4>2. 1 \in 1..n
                BY <1>1, <2>1, <4>1, EmptySeq
            <4> QED
                BY <2>2, <4>1, <4>2
        <3> QED
            BY <1>1, <1>2, <2>2, <3>1, <3>2, <3>3 DEF Closes
    <2>6. AtEnd'
        BY <1>1, <1>2, <2>2 DEF AtEnd
    <2>7. Coming => Coming'
        BY <2>1, <2>2, <2>3 DEF Coming
    <2>8. m.type \in {"stop", "close"} => Coming'
        <3>1. n + 1 \in 1..(n+1)
            OBVIOUS
        <3> QED
            BY <2>2, <3>1 DEF Coming
    <2>9. Kept'
        BY <1>1, <1>2, <1>4, <2>7, <2>8 DEF Kept
    <2> QED
        BY <2>5, <2>6, <2>9 DEF RestInv
<1> QED
    BY <1>1, <1>3, <1>4

\* What the session becomes of the message that is taken.
Becomes(t) ==
    \/ t \in {"start", "pause", "resume"} /\ at' = "idle" /\ marked' \in Ongoing
    \/ t = "chunk" /\ at' = "idle" /\ marked' = marked
    \/ t = "stop" /\ at' = "stopping" /\ marked' = marked
    \/ t = "close" /\ marked \in Ongoing /\ stored < MinFinalize
            /\ at' = "idle" /\ marked' = "abandoned"
    \/ t = "close" /\ marked \in Ongoing /\ stored >= MinFinalize
            /\ at' = "stopping" /\ marked' = marked
    \/ t = "close" /\ marked \notin Ongoing /\ at' = "idle" /\ marked' = marked

\* A message is taken.
LEMMA RestTaken ==
    ASSUME LiveInv, RestInv, NEW t, Receive(t), Becomes(t), stored' = stored + up[1].units,
           UNCHANGED <<ui, sent, open, uploads, stops, asked, happened>>
    PROVE  RestInv'
<1>1. /\ up \in Seq(Messages) /\ open \in BOOLEAN /\ asked \in Nat /\ stored \in Nat
      /\ marked \in {"none", "finalizing"} \cup Ongoing \cup Finished
      /\ Closes /\ AtEnd /\ Kept /\ Enough /\ Weights
      /\ at = "idle"
    BY DEF LiveInv, TypesRest, TypesServer, TypesBrowser, RestInv, Receive
<1>2. (Excused' <=> Excused) /\ (Due' <=> Due) /\ ~ Saving /\ Lost' = Lost
      /\ (Lost => "dropped" \in happened)
    BY <1>1 DEF Excused, Due, Saving, Lost, Becomes
<1>3. PICK n \in Nat : n = Len(up)
    BY <1>1
<1>4. /\ n >= 1 /\ Len(up') = n - 1 /\ up[1].type = t
      /\ up' \in Seq(Messages) /\ up # <<>>
      /\ \A i \in 1..(n-1) : up'[i] = up[i + 1]
    BY <1>1, <1>3, Taken DEF Receive
<1>5. \A i \in 1..(n-1) : i + 1 \in 1..n
    OBVIOUS
<1>6. t = "close" => n = 1 /\ ~ open /\ up' = <<>> /\ stored' = stored
    <2> SUFFICES ASSUME t = "close" PROVE n = 1 /\ ~ open /\ up' = <<>> /\ stored' = stored
        OBVIOUS
    <2>1. 1 \in 1..n /\ up[1].type = "close"
        BY <1>4
    <2>2. n = 1 /\ ~ open
        BY <1>1, <1>3, <2>1 DEF Closes
    <2>3. up' = <<>>
        BY <1>4, <2>2, EmptySeq
    <2>4. up[1].units = 0
        BY <1>1, <1>3, <2>1 DEF Weights
    <2> QED
        BY <1>1, <2>2, <2>3, <2>4
<1>7. ~ open /\ up' = <<>> => t = "close"
    <2> SUFFICES ASSUME ~ open, up' = <<>> PROVE t = "close"
        OBVIOUS
    <2>1. Len(up') = 0
        BY EmptySeq
    <2>2. n = 1
        BY <1>4, <2>1
    <2>3. up[Len(up)].type = "close"
        BY <1>1, <1>4 DEF Closes
    <2> QED
        BY <1>3, <1>4, <2>2, <2>3
<1>8. marked = "none" => t \in {"start", "close"}
    BY <1>1, <1>4 DEF Closes
<1>9. Closes'
    <2>1. \A i \in 1..(n-1) : up'[i].type = "close" => i = n - 1 /\ ~ open'
        <3> SUFFICES ASSUME NEW i \in 1..(n-1), up'[i].type = "close" PROVE i = n - 1 /\ ~ open
            OBVIOUS
        <3>1. PICK ii \in 1..n : ii = i + 1
            BY <1>5
        <3>2. ii = n /\ ~ open
            BY <1>1, <1>3, <1>4, <3>1 DEF Closes
        <3> QED
            BY <3>1, <3>2
    <2>2. ~ open /\ up' # <<>> => up'[n - 1].type = "close"
        <3> SUFFICES ASSUME ~ open, up' # <<>> PROVE up'[n - 1].type = "close"
            OBVIOUS
        <3>1. n - 1 # 0
            BY <1>4, EmptySeq
        <3>2. n - 1 \in 1..(n-1) /\ up'[n-1] = up[n]
            BY <1>4, <3>1
        <3> QED
            BY <1>1, <1>3, <1>4, <3>2 DEF Closes
    <2>3. marked' = "none" => t = "close" /\ marked = "none"
        BY <1>8 DEF Becomes, Ongoing
    <2>4. marked' = "none" => stored' = 0 /\ ~ Saving' /\ ~ open /\ up' = <<>>
        BY <1>1, <1>6, <2>3 DEF Becomes, Closes, Saving, Ongoing
    <2>5. at' # "gone"
        BY DEF Becomes
    <2> QED
        BY <1>4, <2>1, <2>2, <2>4, <2>5 DEF Closes
<1>10. ~ Excused => marked # "finalizing"
    BY <1>1, <1>2 DEF AtEnd
<1>11. AtEnd'
    <2>1. ~ Excused => marked' # "finalizing"
        BY <1>10 DEF Becomes, Ongoing
    <2>2. ~ Excused /\ ~ open /\ up' = <<>> /\ ~ Saving' => marked' \in Finished \cup {"none"}
        BY <1>1, <1>7, <1>10 DEF Becomes, Saving, Finished
    <2> QED
        BY <1>2, <2>1, <2>2 DEF AtEnd
<1>12. Kept'
    <2> SUFFICES ASSUME ~ Excused, "dropped" \notin happened
                 PROVE  /\ asked >= MinFinalize => uploads # <<>> \/ Coming' \/ Saving'
                        /\ marked' \in Finished => uploads # <<>> \/ (Due /\ asked < MinFinalize)
        BY <1>2 DEF Kept
    <2>1. t = "close" => stored >= asked /\ Due
        <3>1. t = "close" => stored' >= asked
            BY <1>2, LevelsTaken DEF LiveInv
        <3>2. t = "close" => 1 \in 1..Len(up) /\ up[1].type \in {"stop", "close"}
            BY <1>3, <1>4
        <3> QED
            BY <1>1, <1>6, <3>1, <3>2 DEF Enough
    <2>2. ASSUME marked' \in Finished PROVE uploads # <<>> \/ (Due /\ asked < MinFinalize)
        <3>1. marked' = marked \/ (t = "close" /\ stored < MinFinalize)
            BY <2>2 DEF Becomes, Ongoing, Finished
        <3> QED
            BY <1>1, <2>1, <2>2, <3>1 DEF Kept
    <2>3. ASSUME asked >= MinFinalize, uploads = <<>>, ~ Saving' PROVE Coming'
        <3>1. PICK i \in 1..n : up[i].type \in {"stop", "close"}
            BY <1>1, <1>2, <1>3, <2>3 DEF Kept, Coming
        <3>2. t # "stop"
            BY <2>3 DEF Becomes, Saving
        <3>3. CASE t = "close"
            <4>1. stored >= MinFinalize
                BY <1>1, <2>1, <2>3, <3>3
            <4>2. marked \notin Ongoing
                BY <1>1, <2>3, <3>3, <4>1 DEF Becomes, Saving
            <4>3. marked # "none"
                BY <1>1, <4>1 DEF Closes
            <4>4. marked \in Finished
                BY <1>1, <1>10, <4>2, <4>3
            <4> QED
                BY <1>1, <2>3, <4>4 DEF Kept
        <3>4. CASE t # "close"
            <4>1. i # 1
                BY <1>4, <3>1, <3>2, <3>4
            <4>2. PICK j \in 1..(n-1) : i = j + 1
                BY <4>1
            <4>3. up'[j].type \in {"stop", "close"}
                BY <1>4, <3>1, <4>2
            <4> QED
                BY <1>4, <4>2, <4>3 DEF Coming
        <3> QED
            BY <3>3, <3>4
    <2> QED
        BY <2>2, <2>3
<1> QED
    BY <1>9, <1>11, <1>12 DEF RestInv

\* The consumer makes a meeting, or says that it could not.
LEMMA RestWorks ==
    ASSUME LiveInv, RestInv, Finalize \/ Refused \/ Upload \/ Break \/ LinkMeeting
    PROVE  RestInv'
<1>1. /\ Closes /\ AtEnd /\ Kept /\ Enough /\ Phases
      /\ asked \in Nat /\ stored \in Nat /\ uploads \in Seq(1..MaxHeard)
    BY DEF LiveInv, TypesRest, TypesServer, TypesBrowser, RestInv
<1>2. /\ UNCHANGED <<ui, open, up, stored, stops, asked>>
      /\ Saving /\ at' \in {"idle", "uploading", "linking"}
    BY DEF Finalize, Refused, Upload, Break, LinkMeeting, Saving, browser, socket, noted, session
<1>3. /\ Excused => Excused'
      /\ "dropped" \in happened => "dropped" \in happened'
    BY DEF Finalize, Refused, Upload, Break, LinkMeeting, noted, Excused
<1>4. (Due' <=> Due) /\ (Coming' <=> Coming)
    BY <1>2 DEF Due, Coming
<1>5. Closes'
    <2>1. marked' # "none"
        BY <1>1, <1>2 DEF Finalize, Refused, Upload, Break, LinkMeeting, session, Closes
    <2> QED
        BY <1>1, <1>2, <2>1 DEF Closes
<1>6. AtEnd' /\ Kept'
    <2>1. CASE Finalize
        <3>1. marked' = "finalizing" /\ Saving'
            BY <2>1 DEF Finalize, Saving
        <3> QED
            BY <3>1 DEF AtEnd, Kept, Finished
    <2>2. CASE Refused
        <3>1. marked' = "failed" /\ at = "uploading"
            BY <2>2 DEF Refused
        <3>2. ASSUME ~ Excused', "dropped" \notin happened'
              PROVE  uploads' # <<>> \/ (Due' /\ asked' < MinFinalize)
            <4>1. stored = 0 \/ Duplicate
                BY <2>2, <3>2 DEF Refused, Excused
            <4>2. Due /\ stored >= asked
                BY <1>1, <1>3, <3>1, <3>2 DEF Enough
            <4>3. CASE Duplicate
                <5>1. uploads # <<>>
                    BY <1>1, <4>3 DEF Duplicate
                <5> QED
                    BY <2>2, <5>1 DEF Refused
            <4>4. CASE stored = 0
                BY <1>1, <1>2, <1>4, <4>2, <4>4
            <4> QED
                BY <4>1, <4>3, <4>4
        <3>3. asked' \in Nat
            BY <1>1, <1>2
        <3> QED
            BY <3>1, <3>2, <3>3 DEF AtEnd, Kept, Finished
    <2>3. CASE Upload
        <3>1. at' = "linking" /\ uploads' = Append(uploads, stored) /\ stored > 0 /\ marked' = marked
            BY <2>3 DEF Upload
        <3>2. stored \in 1..MaxHeard
            BY <1>1, <3>1 DEF LiveInv, TypesServer, TypesBrowser
        <3>3. uploads' # <<>>
            BY <1>1, <3>1, <3>2, AppendProperties
        <3> QED
            BY <3>1, <3>3 DEF AtEnd, Kept, Saving
    <2>4. CASE Break
        BY <2>4 DEF Break, Excused, AtEnd, Kept
    <2>5. CASE LinkMeeting
        <3>1. marked' = "completed" /\ uploads' = uploads /\ uploads # <<>>
            BY <1>1, <2>5 DEF LinkMeeting, Phases
        <3> QED
            BY <3>1 DEF AtEnd, Kept, Finished
    <2> QED
        BY <2>1, <2>2, <2>3, <2>4, <2>5
<1> QED
    BY <1>5, <1>6 DEF RestInv

\* The browser acts.
LEMMA RestBrowses == ASSUME LiveInv, RestInv, Browser PROVE RestInv'
<1>1. TypesBrowser /\ TypesServer /\ TypesRest /\ Phases /\ Closes /\ AtEnd /\ Kept
    BY DEF LiveInv, RestInv
<1>2. CASE Start
    <2>1. /\ marked = "none" /\ stored = 0 /\ asked = 0 /\ at = "idle" /\ open' = TRUE
          /\ up' = <<Message("start")>> /\ Message("start").type = "start"
          /\ UNCHANGED <<at, marked, stored, asked>>
        BY <1>1, <1>2, MessageTypes DEF Start, Phases, session, noted, Types
    <2>2. Len(up') = 1 /\ up'[1].type = "start" /\ up' # <<>>
        BY <2>1
    <2>3. Closes' /\ AtEnd' /\ Kept'
        BY <2>1, <2>2 DEF Closes, AtEnd, Kept, Saving, Finished
    <2> QED
        BY <2>3 DEF RestInv
<1>3. CASE Hear
    BY <1>1, <1>3 DEF Hear, socket, session, noted, RestInv, Closes, AtEnd, Kept, Saving,
                      Coming, Excused, Due
<1>4. CASE Timeslice \/ Flush
    <2>1. /\ Send(Chunk(heard - sent)) /\ heard > sent /\ open
          /\ UNCHANGED <<ui, open, at, marked, stored, uploads, asked, happened, stops>>
        BY <1>4 DEF Timeslice, Flush, SendData, session, noted
    <2>2. heard - sent \in 0..MaxHeard
        BY <1>1, <2>1 DEF TypesBrowser
    <2>3. PICK m \in Messages : m = Chunk(heard - sent) /\ m.type = "chunk"
        BY <2>2, MessageTypes
    <2>4. ui # "idle"
        BY <1>1, <2>1 DEF Phases
    <2>5. Due => Due'
        BY <2>1 DEF Due
    <2> QED
        BY <2>1, <2>3, <2>4, <2>5, RestSent
<1>5. CASE Pause \/ Resume
    <2>1. PICK t \in {"pause", "resume"} : Send(Message(t))
        BY <1>5 DEF Pause, Resume
    <2>2. PICK m \in Messages : m = Message(t) /\ m.type = t
        BY MessageTypes DEF Types
    <2>3. /\ ui # "idle" /\ ui # "left"
          /\ UNCHANGED <<open, at, marked, stored, uploads, asked, happened, stops>>
        BY <1>5 DEF Pause, Resume, session, noted
    <2>4. Due => Due'
        BY <2>3 DEF Due
    <2>5. open' \in BOOLEAN
        BY <1>1, <2>3 DEF TypesRest
    <2> QED
        BY <2>1, <2>2, <2>3, <2>4, <2>5, RestSent
<1>6. CASE Stop
    <2>1. /\ Send(Message("stop")) /\ stops' = stops + 1 /\ asked' = IF stops = 0 THEN sent ELSE asked
          /\ ui \in {"connecting"} \cup Ongoing
          /\ UNCHANGED <<open, at, marked, stored, uploads, happened>>
        BY <1>6 DEF Stop, NoteStop, session
    <2>2. PICK m \in Messages : m = Message("stop") /\ m.type = "stop"
        BY MessageTypes DEF Types
    <2>3. ui # "idle" /\ ui # "left" /\ ui # "completed"
        BY <2>1 DEF Ongoing
    <2>4. ~ open => Lost
        BY <1>1, <2>3 DEF Phases
    <2>5. Due' /\ (stops = 0 => ~ Due)
        BY <1>1, <2>1, <2>3 DEF Due, TypesRest
    <2>6. open' \in BOOLEAN
        BY <1>1, <2>1 DEF TypesRest
    <2>7. \/ asked' = asked /\ (Due => Due')
          \/ ~ Due /\ Due' /\ (IF open THEN m.type \in {"stop", "close"} ELSE Lost)
        BY <2>1, <2>2, <2>4, <2>5
    <2> QED
        BY <2>1, <2>2, <2>3, <2>6, <2>7, RestSent
<1>7. CASE Leave
    <2>1. /\ Send(Message("close")) /\ open /\ open' = FALSE /\ ui' = "left"
          /\ asked' = IF stops = 0 THEN sent ELSE asked
          /\ UNCHANGED <<at, marked, stored, uploads, happened, stops>>
        BY <1>7 DEF Leave, CleanUp, session
    <2>2. PICK m \in Messages : m = Message("close") /\ m.type = "close"
        BY MessageTypes DEF Types
    <2>3. ui # "idle" /\ ui # "left"
        BY <1>1, <2>1 DEF Phases
    <2>4. Due' /\ (stops = 0 => ~ Due)
        BY <1>1, <2>1, <2>3 DEF Due, TypesRest
    <2>5. \/ asked' = asked /\ (Due => Due')
          \/ ~ Due /\ Due' /\ (IF open THEN m.type \in {"stop", "close"} ELSE Lost)
        BY <2>1, <2>2, <2>4
    <2> QED
        BY <2>1, <2>2, <2>3, <2>5, RestSent
<1>8. CASE OnMessage
    <2>1. /\ down # <<>> /\ UNCHANGED <<at, marked, stored, uploads, happened, stops, asked>>
        BY <1>8 DEF OnMessage, session, noted
    <2>2. open /\ ui # "idle" /\ ui # "left"
        BY <1>1, <2>1 DEF Phases, TypesRest
    <2>3. Due => Due'
        BY <2>1, <2>2 DEF Due
    <2>4. CASE CleanUp
        <3>1. PICK m \in Messages : m = Message("close") /\ m.type = "close"
            BY MessageTypes DEF Types
        <3>2. Send(m) /\ open' = FALSE
            BY <2>4, <3>1 DEF CleanUp
        <3> QED
            BY <2>1, <2>2, <2>3, <3>1, <3>2, RestSent
    <2>5. CASE UNCHANGED <<open, up>>
        BY <1>1, <2>1, <2>2, <2>3, <2>5
        DEF RestInv, Closes, AtEnd, Kept, Saving, Coming, Excused
    <2> QED
        BY <1>8, <2>4, <2>5 DEF OnMessage
<1> QED
    BY <1>2, <1>3, <1>4, <1>5, <1>6, <1>7, <1>8 DEF Browser

\* The consumer handles a message.
LEMMA RestHandles ==
    ASSUME LiveInv, RestInv,
           OnStart \/ OnChunk \/ SetStatus("pause", "paused") \/ SetStatus("resume", "recording")
           \/ OnStop \/ Disconnect
    PROVE  RestInv'
<1>1. up \in Seq(Messages) /\ stored \in Nat
    BY DEF LiveInv, TypesRest, TypesServer, TypesBrowser
<1>2. ASSUME NEW t, Receive(t), t # "chunk" PROVE stored + up[1].units = stored
    <2>1. Len(up) >= 1 /\ up[1].type = t /\ Len(up) \in Nat
        BY <1>1, <1>2, Taken
    <2> QED
        BY <1>1, <1>2, <2>1 DEF LiveInv, Weights
<1>3. UNCHANGED <<ui, sent, open, uploads, stops, asked, happened>>
    BY DEF OnStart, OnChunk, SetStatus, OnStop, Disconnect, browser, noted, session
<1>4. CASE OnStart
    <2>1. Receive("start") /\ Becomes("start")
        BY <1>4 DEF OnStart, Receive, Becomes, Ongoing
    <2> QED
        BY <1>2, <1>3, <1>4, <2>1, RestTaken DEF OnStart
<1>5. CASE OnChunk
    <2>1. Receive("chunk") /\ Becomes("chunk")
        BY <1>5 DEF OnChunk, Receive, Becomes
    <2>2. Head(up) = up[1]
        BY <1>1, <2>1, Taken
    <2>3. stored' = stored + up[1].units
        BY <1>5, <2>2 DEF OnChunk
    <2> QED
        BY <1>3, <2>1, <2>3, RestTaken
<1>6. ASSUME NEW t \in {"pause", "resume"}, NEW s \in {"paused", "recording"}, SetStatus(t, s)
      PROVE  RestInv'
    <2>1. Receive(t) /\ Becomes(t) /\ stored' = stored
        BY <1>6 DEF SetStatus, Receive, Becomes, Ongoing
    <2>2. stored' = stored + up[1].units
        BY <1>2, <2>1
    <2> QED
        BY <1>3, <2>1, <2>2, RestTaken
<1>7. CASE OnStop
    <2>1. Receive("stop") /\ Becomes("stop")
        BY <1>7 DEF OnStop, Becomes, session
    <2> QED
        BY <1>2, <1>3, <1>7, <2>1, RestTaken DEF OnStop, session
<1>8. CASE Disconnect
    <2>1. Receive("close") /\ stored' = stored
        BY <1>8 DEF Disconnect
    <2>2. at = "idle"
        BY <2>1 DEF Receive
    <2>3. Becomes("close")
        BY <1>1, <1>8, <2>2 DEF Disconnect, EndSession, KeepSession, Becomes
    <2> QED
        BY <1>2, <1>3, <2>1, <2>3, RestTaken
<1> QED
    BY <1>4, <1>5, <1>6, <1>7, <1>8

\* The connection, or the process of the consumer, ends.
LEMMA RestEnds == ASSUME LiveInv, RestInv, Drop \/ Crash PROVE RestInv'
<1>1. TypesRest /\ Phases /\ Closes /\ AtEnd
    BY DEF LiveInv, RestInv
<1>2. CASE Drop
    <2>1. PICK k \in 0..Len(up) : up' = Append(SubSeq(up, 1, k), Message("close"))
        BY <1>2 DEF Drop
    <2>2. /\ open /\ open' = FALSE /\ happened' = happened \cup {"dropped"}
          /\ UNCHANGED <<at, marked, stored>>
        BY <1>2 DEF Drop, session
    <2>3. PICK m \in Messages : m = Message("close") /\ m.type = "close"
        BY MessageTypes DEF Types
    <2>4. up \in Seq(Messages) /\ k \in Nat /\ Len(up) \in Nat
        BY <1>1 DEF TypesRest
    <2>5. /\ SubSeq(up, 1, k) \in Seq(Messages) /\ Len(SubSeq(up, 1, k)) = k
          /\ \A i \in 1..k : SubSeq(up, 1, k)[i] = up[i]
        BY <2>4
    <2>6. /\ Len(up') = k + 1 /\ up'[k + 1] = m /\ up' # <<>>
          /\ \A i \in 1..k : up'[i] = up[i]
        BY <2>1, <2>3, <2>5, AppendProperties
    <2>7. \A i \in 1..(k+1) : i \in 1..k \/ i = k + 1
        BY <2>4
    <2>8. \A i \in 1..k : i \in 1..Len(up) /\ up[i].type # "close"
        BY <1>1, <2>2, <2>4 DEF Closes
    <2>9. \A i \in 1..(k+1) : up'[i].type = "close" => i = k + 1 /\ ~ open'
        BY <2>2, <2>6, <2>7, <2>8
    <2>10. marked = "none" => up'[1].type \in {"start", "close"}
        <3> SUFFICES ASSUME marked = "none" PROVE up'[1].type \in {"start", "close"}
            OBVIOUS
        <3>1. CASE k = 0
            BY <2>3, <2>6, <3>1
        <3>2. CASE k # 0
            <4>1. 1 \in 1..k /\ up # <<>>
                BY <1>1, <2>2, <2>4, <3>2 DEF Closes
            <4> QED
                BY <1>1, <2>6, <4>1 DEF Closes
        <3> QED
            BY <3>1, <3>2
    <2>11. Closes'
        BY <1>1, <2>2, <2>3, <2>6, <2>9, <2>10 DEF Closes, Saving
    <2>12. AtEnd'
        BY <1>1, <2>2, <2>6 DEF AtEnd, Saving, Excused
    <2>13. Kept'
        BY <2>2 DEF Kept
    <2> QED
        BY <2>11, <2>12, <2>13 DEF RestInv
<1>3. CASE Crash
    <2>1. /\ up' = <<>> /\ open' = FALSE /\ at' = "gone" /\ happened' = happened \cup {"crashed"}
          /\ UNCHANGED <<marked, stored>>
        BY <1>3 DEF Crash, session
    <2>2. Len(up') = 0 /\ Excused'
        BY <2>1 DEF Excused
    <2> QED
        BY <1>1, <2>1, <2>2 DEF RestInv, Closes, AtEnd, Kept, Saving
<1> QED
    BY <1>2, <1>3

\* A recording whose connection has ended, by Stop, by leaving the page or by a
\* lost connection, is settled when the consumer has handled what had arrived,
\* for every length of a recording and every order of its messages: what is left
\* to fairness is that the consumer goes on.
THEOREM RecordingsSettleAtRest == LiveSpec => []SettledAtRest
<1>1. LiveInit => RestInv
    <2> SUFFICES ASSUME LiveInit PROVE RestInv
        OBVIOUS
    <2>1. /\ up = <<>> /\ Len(up) = 0 /\ marked = "none" /\ at = "idle" /\ ui = "idle"
          /\ stored = 0 /\ asked = 0 /\ ~ open
        BY DEF LiveInit
    <2> QED
        BY <2>1 DEF RestInv, Closes, AtEnd, Kept, Saving, Finished
<1>2. LiveInv /\ RestInv /\ [LiveNext]_liveVars => RestInv'
    <2> SUFFICES ASSUME LiveInv, RestInv, [LiveNext]_liveVars PROVE RestInv'
        OBVIOUS
    <2>1. CASE UNCHANGED liveVars
        BY <2>1 DEF liveVars, browser, socket, session, noted, RestInv, Closes, AtEnd, Kept,
                    Saving, Coming, Excused, Due
    <2>2. CASE Consumer
        BY <2>2, RestHandles, RestWorks DEF Consumer
    <2> QED
        BY <2>1, <2>2, RestBrowses, RestEnds DEF LiveNext
<1>3. RestInv => SettledAtRest
    <2> SUFFICES ASSUME RestInv, AtRest, ~ Excused PROVE Settled
        BY DEF SettledAtRest
    <2>1. AtEnd /\ Kept /\ up = <<>> /\ Len(up) = 0 /\ ~ Saving
        BY DEF RestInv, AtRest
    <2>2. ~ Coming
        BY <2>1 DEF Coming
    <2>3. marked \in Finished \cup {"none"}
        BY <2>1 DEF AtEnd, AtRest
    <2> QED
        BY <2>1, <2>2, <2>3 DEF Kept, Settled
<1> QED
    BY <1>1, <1>2, <1>3, LiveAlways, PTL DEF LiveSpec
=============================================================================
