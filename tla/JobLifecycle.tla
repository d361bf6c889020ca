---------------------------- MODULE JobLifecycle ---------------------------
(***************************************************************************)
(* What the jobs app promises of a job's status, whoever writes it: a run  *)
(* begins only by claiming a queued job, every claim uses up one queuing,  *)
(* and nothing else ever shows the job as RUNNING.  Any other status may   *)
(* be written at any time, because requests and workers do not coordinate. *)
(* JobEngine implements this specification.                                *)
(***************************************************************************)
EXTENDS Naturals

VARIABLES
    status,     \* the status column
    attempts,   \* the attempts column: claims ever made
    queuings    \* how often the job was put into QUEUED

vars == <<status, attempts, queuings>>

Settled == {"succeeded", "failed", "canceled", "paused",
            "cancellation_requested"}

Init == status = "queued" /\ attempts = 0 /\ queuings = 1

Enqueue ==
    /\ status' = "queued"
    /\ queuings' = queuings + 1
    /\ UNCHANGED attempts

Claim ==
    /\ status = "queued"
    /\ status' = "running"
    /\ attempts' = attempts + 1
    /\ UNCHANGED queuings

Settle ==
    /\ status' \in Settled
    /\ UNCHANGED <<attempts, queuings>>

Next == Enqueue \/ Claim \/ Settle

Spec == Init /\ [][Next]_vars

\* Claims never outnumber queuings, and a queued job has one claim to spare.
ClaimsBounded ==
    /\ status \in Settled \cup {"queued", "running"}
    /\ attempts \in Nat /\ queuings \in Nat
    /\ attempts <= queuings
    /\ status = "queued" => attempts < queuings
=============================================================================
