----------------------------- MODULE MCCapture -----------------------------
(* How a recording gets in without an upload, on small instances: a live recording,
   and the imports of one media source.

   They share nothing: a behaviour moves the component in focus, the other stays in
   its initial state. *)
EXTENDS LiveSession, MediaImport

VARIABLE focus

\* The two imports are alike: the first is the one whose choice comes first.
FirstImport == CHOOSE s \in Sessions : TRUE
Place       == [reject |-> 1, ignore |-> 2, replace |-> 3, keep_both |-> 4]
InOrder ==
  \A s \in Sessions : "none" \notin {status[FirstImport], status[s]} =>
                        Place[choice[FirstImport]] <= Place[choice[s]]

captureVars == <<focus, liveVars, importVars>>

CaptureInit ==
  /\ focus \in {"live", "import"} /\ LiveInit /\ ImportInit
  /\ focus = "live" => meetings = <<>>

CaptureNext ==
  \/ focus = "live" /\ LiveNext /\ UNCHANGED <<focus, importVars>>
  \/ focus = "import" /\ ImportNext /\ InOrder' /\ UNCHANGED <<focus, liveVars>>

CaptureSpec == CaptureInit /\ [][CaptureNext]_captureVars

\* The fairness of either, in the behaviours that move it.
Live(A)   == focus = "live" /\ A /\ UNCHANGED <<focus, importVars>>
Import(A) == focus = "import" /\ A /\ UNCHANGED <<focus, liveVars>>

CaptureFairness ==
  /\ WF_captureVars(Live(Consumer))
  /\ \A w \in Workers : WF_captureVars(Import(Work(w)))
  /\ WF_captureVars(Import(JobEnd))

CaptureFairSpec == CaptureSpec /\ CaptureFairness
=============================================================================
