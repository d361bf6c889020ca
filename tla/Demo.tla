-------------------------------- MODULE Demo --------------------------------
(* The demo account and its workspace (common/demo.py, DemoResetView): a reset
   deletes the account with all it owns, and uploads and processes the recordings
   for a new one.  While it is at it, it replaces JobManager.dispatch and the AI
   settings of its whole process, where other requests run in other threads.

   A reset asked for in the settings page is one transaction (ATOMIC_REQUESTS); the
   command create_demo has a process of its own and commits as it goes. *)
EXTENDS Naturals, Sequences

CONSTANTS
  DemoResets,      \* requests for a reset, in threads of the API's process
  Commands,        \* runs of create_demo
  Uploads,         \* jobs other users' requests make in the API's process
  DemoRecordings,  \* number of demo recordings
  KeptPending,     \* how many of the last ones leave their suggestions pending
  NoAccount

ASSUME DemoAssumption ==
  /\ DemoRecordings \in Nat /\ KeptPending \in 0..DemoRecordings
  /\ NoAccount \notin DemoResets \cup Commands
  /\ DemoResets \cap Commands = {}

VARIABLES
  account,      \* the committed account, named after the seeder that made it
  meetings,     \* [Seeders -> Seq of modes: the meetings of its account as processed]
  dispatch,     \* JobManager.dispatch of the API's process: "send" or "drop"
  aiMode,       \* AI_SUGGESTION_MODE there
  progress,     \* [Seeders -> where DemoSeeder.run stands]
  found,        \* [Seeders -> the account wipe has found]
  previous,     \* [Seeders -> dispatch and mode to restore]
  job,          \* [Uploads -> "none", "sent", or never to be run: "suppressed" while a
                \* reset is under way, "stuck" when none is]
  crossing      \* history: the resets under way while another was

demoVars == <<account, meetings, dispatch, aiMode, progress, found, previous, job, crossing>>

Seeders == DemoResets \cup Commands
Patch == [dispatch |-> "send", mode |-> "configured"]

DemoInit ==
  /\ account = NoAccount
  /\ meetings = [s \in Seeders |-> <<>>]
  /\ dispatch = "send"
  /\ aiMode = "configured"
  /\ progress = [s \in Seeders |-> "idle"]
  /\ found = [s \in Seeders |-> NoAccount]
  /\ previous = [s \in Seeders |-> Patch]
  /\ job = [j \in Uploads |-> "none"]
  /\ crossing = {}

\* Between the patch and the finally clause.
Seeding == {s \in DemoResets : progress[s] \in {"patched", "looked", "seeding", "set"}}

\* A transaction of another seeder holds the account's row, or its e-mail address.
Blocked(s) == \E r \in DemoResets \ {s} : progress[r] \in {"seeding", "set", "restored"}

StartSeeding(s) ==
  /\ progress[s] = "idle"
  /\ progress' = [progress EXCEPT ![s] = "patched"]
  /\ IF s \in DemoResets
     THEN /\ previous' = [previous EXCEPT ![s] = [dispatch |-> dispatch, mode |-> aiMode]]
          /\ dispatch' = "drop"
          /\ aiMode' = "auto_high"
          /\ crossing' = IF Seeding = {} THEN crossing ELSE crossing \cup Seeding \cup {s}
     ELSE UNCHANGED <<previous, dispatch, aiMode, crossing>>
  /\ UNCHANGED <<account, meetings, found, job>>

\* wipe looks for the account ...
Look(s) ==
  /\ progress[s] = "patched"
  /\ found' = [found EXCEPT ![s] = account]
  /\ progress' = [progress EXCEPT ![s] = "looked"]
  /\ UNCHANGED <<account, meetings, dispatch, aiMode, previous, job, crossing>>

\* ... and deletes it; user makes the new one, if no other has its address by then.
Recreate(s) ==
  /\ progress[s] = "looked"
  /\ ~Blocked(s)
  /\ account = found[s]
  /\ progress' = [progress EXCEPT ![s] = "seeding"]
  /\ account' = IF s \in Commands THEN s ELSE account
  /\ UNCHANGED <<meetings, dispatch, aiMode, found, previous, job, crossing>>

Planned(i) == IF i > DemoRecordings - KeptPending THEN "suggestions_only" ELSE "auto_high"

UploadNext(s) ==
  /\ progress[s] = "seeding"
  /\ Len(meetings[s]) < DemoRecordings
  /\ aiMode' = IF s \in DemoResets THEN Planned(Len(meetings[s]) + 1) ELSE aiMode
  /\ progress' = [progress EXCEPT ![s] = "set"]
  /\ UNCHANGED <<account, meetings, dispatch, found, previous, job, crossing>>

\* The pipeline reads the mode minutes later, when it materializes suggestions.
ProcessNext(s) ==
  /\ progress[s] = "set"
  /\ s \in Commands => ~Blocked(s) /\ account = s
  /\ meetings' = [meetings EXCEPT ![s] =
                     Append(@, IF s \in DemoResets THEN aiMode ELSE Planned(Len(@) + 1))]
  /\ progress' = [progress EXCEPT ![s] = "seeding"]
  /\ UNCHANGED <<account, dispatch, aiMode, found, previous, job, crossing>>

\* Mutant: only a run that reaches its end puts the process back.
RestoreUnlessFailed(s, end) ==
  IF s \in DemoResets /\ end = "restored"
  THEN dispatch' = previous[s].dispatch /\ aiMode' = previous[s].mode
  ELSE UNCHANGED <<dispatch, aiMode>>

\* The finally clause.
Restore(s, end) ==
  IF s \in DemoResets
  THEN dispatch' = previous[s].dispatch /\ aiMode' = previous[s].mode
  ELSE UNCHANGED <<dispatch, aiMode>>

FinishSeeding(s) ==
  /\ progress[s] = "seeding"
  /\ Len(meetings[s]) = DemoRecordings
  /\ Restore(s, "restored")
  /\ progress' = [progress EXCEPT ![s] = "restored"]
  /\ UNCHANGED <<account, meetings, found, previous, job, crossing>>

\* The view returns after the finally clause, and then the request commits.
Respond(s) ==
  /\ progress[s] = "restored"
  /\ account' = IF s \in DemoResets THEN s ELSE account
  /\ progress' = [progress EXCEPT ![s] = "over"]
  /\ UNCHANGED <<meetings, dispatch, aiMode, found, previous, job, crossing>>

\* The address is taken, the account is gone, a file or a tool is missing: what a
\* request has done is rolled back.
SeedingFails(s) ==
  /\ progress[s] \in {"patched", "looked", "seeding", "set"}
  /\ Restore(s, "over")
  /\ progress' = [progress EXCEPT ![s] = "over"]
  /\ UNCHANGED <<account, meetings, found, previous, job, crossing>>

\* The upload of another user, in the API's process: JobManager.enqueue.
EnqueueOther(j) ==
  /\ job[j] = "none"
  /\ job' = [job EXCEPT ![j] = IF dispatch = "send" THEN "sent"
                               ELSE IF Seeding # {} THEN "suppressed" ELSE "stuck"]
  /\ UNCHANGED <<account, meetings, dispatch, aiMode, progress, found, previous, crossing>>

\* The API's process ends and is started again.
RestartApi ==
  /\ \E s \in DemoResets : progress[s] \notin {"idle", "over"}
  /\ progress' = [s \in Seeders |->
                    IF s \in DemoResets /\ progress[s] # "idle" THEN "over" ELSE progress[s]]
  /\ dispatch' = "send"
  /\ aiMode' = "configured"
  /\ UNCHANGED <<account, meetings, found, previous, job, crossing>>

DemoNext ==
  \/ \E s \in Seeders :
       \/ StartSeeding(s) \/ Look(s) \/ Recreate(s) \/ UploadNext(s)
       \/ ProcessNext(s) \/ FinishSeeding(s) \/ Respond(s) \/ SeedingFails(s)
  \/ \E j \in Uploads : EnqueueOther(j)
  \/ RestartApi

DemoSpec == DemoInit /\ [][DemoNext]_demoVars

(* Type invariant. *)
DemoTypeOK ==
  LET Modes == {"configured", "auto_high", "suggestions_only"}
  IN /\ account \in Seeders \cup {NoAccount}
     /\ \A s \in Seeders : meetings[s] \in Seq(Modes) /\ Len(meetings[s]) <= DemoRecordings
     /\ dispatch \in {"send", "drop"}
     /\ aiMode \in Modes
     /\ progress \in [Seeders -> {"idle", "patched", "looked", "seeding", "set", "restored", "over"}]
     /\ found \in [Seeders -> Seeders \cup {NoAccount}]
     /\ previous \in [Seeders -> [dispatch : {"send", "drop"}, mode : Modes]]
     /\ job \in [Uploads -> {"none", "sent", "suppressed", "stuck"}]
     /\ crossing \subseteq DemoResets

(* What a reset leaves behind (DEMO_MODE.md: "restores the original seeded state";
   demo.py: "we suppress the pipeline's auto-dispatch just long enough"): whatever
   fails, and whoever else seeds, an account that a request has made has all its
   recordings; and unless it overlapped another in the process, each was processed
   in its mode.  As long as no two overlapped, the jobs other users make when none
   is under way are sent, and the process has its settings again. *)
ResetLeavesNoTrace ==
  /\ account \in DemoResets =>
       /\ Len(meetings[account]) = DemoRecordings
       /\ account \notin crossing =>
            \A i \in 1..DemoRecordings : meetings[account][i] = Planned(i)
  /\ crossing = {} =>
       /\ \A j \in Uploads : job[j] # "stuck"
       /\ Seeding = {} => aiMode = "configured"
=============================================================================
