------------------------------- MODULE Reports -------------------------------
(***************************************************************************)
(* The reports of one scope (owner, type, meeting, project).  generate_    *)
(* report asks the language model first, then, inside the transaction of   *)
(* the request, takes the next version over every row, deleted ones too,   *)
(* clears is_current on the rows that are not deleted, and creates its own *)
(* current row.  Nothing in the schema keeps two requests from doing so at *)
(* the same time: each statement sees the rows committed when it starts,   *)
(* and the UPDATE waits for the rows that another transaction holds.       *)
(***************************************************************************)
EXTENDS Naturals, Sequences, FiniteSets, FiniteSetsExt

CONSTANTS Writers,      \* requests that generate a report
          MaxReports

ASSUME ReportsAssumption == MaxReports \in Nat

VARIABLES
    reports,            \* committed rows: version, current, deleted
    writing,               \* where each request stands
    next,               \* the version a request has taken
    target,             \* rows its UPDATE found, then the rows it holds
    overlapped          \* requests that met another one in flight

reportVars == <<reports, writing, next, target, overlapped>>

Rows == DOMAIN reports

ReportsInit ==
    /\ reports = <<>>
    /\ writing = [w \in Writers |-> "idle"]
    /\ next = [w \in Writers |-> 0]
    /\ target = [w \in Writers |-> {}]
    /\ overlapped = {}

InFlightWriters == {w \in Writers : writing[w] # "idle"}

\* Report.all_objects: soft-deleted rows count.
NextVersionOfLive == Max({0} \union {reports[i].version : i \in {j \in Rows : ~reports[j].deleted}}) + 1

NextVersion == Max({0} \union {reports[i].version : i \in Rows}) + 1

TakeVersion(w) ==
    /\ writing[w] = "idle"
    /\ Len(reports) + Cardinality(InFlightWriters) < MaxReports
    /\ next' = [next EXCEPT ![w] = NextVersion]
    /\ writing' = [writing EXCEPT ![w] = "numbered"]
    /\ overlapped' = IF InFlightWriters = {} THEN overlapped \ {w}
                     ELSE overlapped \union InFlightWriters \union {w}
    /\ UNCHANGED <<reports, target>>

\* Report.objects: the rows that are not deleted.
ToRetire == {i \in Rows : ~reports[i].deleted}
RowHeld(i) == \E w \in Writers : writing[w] = "retired" /\ i \in target[w]

FindRows(w) ==
    /\ writing[w] = "numbered"
    /\ target' = [target EXCEPT ![w] = ToRetire]
    /\ writing' = [writing EXCEPT ![w] = "updating"]
    /\ UNCHANGED <<reports, next, overlapped>>

\* Rows deleted while it waited no longer match.
RetireRows(w) ==
    /\ writing[w] = "updating"
    /\ \A i \in target[w] : ~RowHeld(i)
    /\ target' = [target EXCEPT ![w] = {i \in @ : ~reports[i].deleted}]
    /\ writing' = [writing EXCEPT ![w] = "retired"]
    /\ UNCHANGED <<reports, next, overlapped>>

CreateReport(w) ==
    /\ writing[w] = "retired"
    /\ reports' = Append([i \in Rows |-> IF i \in target[w] THEN [reports[i] EXCEPT !.current = FALSE]
                                         ELSE reports[i]],
                         [version |-> next[w], current |-> TRUE, deleted |-> FALSE])
    /\ writing' = [writing EXCEPT ![w] = "idle"]
    /\ target' = [target EXCEPT ![w] = {}]
    /\ UNCHANGED <<next, overlapped>>

DeleteReport(i) ==
    /\ ~reports[i].deleted
    /\ ~RowHeld(i)
    /\ reports' = [reports EXCEPT ![i].deleted = TRUE]
    /\ UNCHANGED <<writing, next, target, overlapped>>

ReportsNext ==
    \/ \E w \in Writers : TakeVersion(w) \/ FindRows(w) \/ RetireRows(w) \/ CreateReport(w)
    \/ \E i \in Rows : DeleteReport(i)

ReportsSpec == ReportsInit /\ [][ReportsNext]_reportVars

-----------------------------------------------------------------------------
Current == {i \in Rows : reports[i].current /\ ~reports[i].deleted}

\* Requests that overlap may leave two current reports of one version.  The next
\* request that runs alone heals it: after it one report is current, its own,
\* and its version is above that of every report there ever was.
AloneHeals ==
    [][\A w \in Writers : writing[w] = "retired" /\ writing'[w] = "idle" /\ w \notin overlapped =>
            /\ Current' = {Len(reports')}
            /\ \A i \in Rows : reports[i].version < reports'[Len(reports')].version]_reportVars
=============================================================================
