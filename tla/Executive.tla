----------------------------- MODULE Executive -----------------------------
(* The materialized executive view of one owner (knowledge/services/executive.py):
   a project's snapshot, the organization's, and the rows written beside it:
   metric points, alerts, recommendations and predictions.

   A refresh reads for a long time without a lock, draws version numbers, and
   writes at the end.  Refreshes overlap: one follows every completed job
   (knowledge/subscribers.py), others are requests.  A request commits once, when
   it ends (ATOMIC_REQUESTS); the subscriber commits the project first. *)
EXTENDS Naturals, Sequences, FiniteSets

CONSTANTS
  Conditions,    \* alert keys whose condition is read from the workspace
  Advice,        \* recommendation keys
  Refreshers,    \* threads that can be materializing
  MaxKnowledge,  \* bound on knowledge versions
  MaxChanges,    \* bound on the changes of the workspace
  MaxRefreshes   \* bound on refreshes

ASSUME ExecutiveAssumption == {MaxKnowledge, MaxChanges, MaxRefreshes} \subseteq Nat

Decline == "health_decline"
AlertKeys == Conditions \cup {Decline}
Levels == {"good", "poor"}           \* overall health, as far as a decline shows
\* No code tells dismissed from acknowledged, or either from in_progress.
AlertStatus == {"open", "acknowledged", "resolved"}
RecommendationStatus == {"open", "in_progress", "done"}
NoRow == [status |-> "none", sv |-> 0, kv |-> 0, by |-> "nobody"]

VARIABLES
  knowledge,    \* the newest knowledge version
  workspace,    \* [level, holding, advised]: what the computations would find
  changes,      \* how often the workspace changed
  orgSnap,      \* OrganizationSnapshot; sv = 0: no row
  projSnap,     \* ProjectSnapshot of the one project
  metrics,      \* ExecutiveMetricSnapshot, the health level of each point
  alerts,       \* [AlertKeys -> row]; history: by, who opened it last, and sv
  recs,         \* [Advice -> row]
  predictions,  \* the snapshot versions predictions are stamped with
  refresh,      \* [Refreshers -> where the refresh is, and its local variables]
  refreshes

executiveVars == <<knowledge, workspace, changes, orgSnap, projSnap, metrics, alerts,
                   recs, predictions, refresh, refreshes>>

NoRefresh == [pc |-> "idle"]

ExecutiveInit ==
  /\ knowledge = 0
  /\ workspace = [level |-> "good", holding |-> {}, advised |-> {}]
  /\ changes = 0
  /\ orgSnap = [sv |-> 0, kv |-> 0, level |-> "good"]
  /\ projSnap = [sv |-> 0, kv |-> 0]
  /\ metrics = <<>>
  /\ alerts = [a \in AlertKeys |-> NoRow]
  /\ recs = [r \in Advice |-> NoRow]
  /\ predictions = {}
  /\ refresh = [m \in Refreshers |-> NoRefresh]
  /\ refreshes = 0

stored == <<orgSnap, projSnap, metrics, alerts, recs, predictions>>

NewKnowledge ==
  /\ knowledge < MaxKnowledge
  /\ knowledge' = knowledge + 1
  /\ UNCHANGED <<workspace, changes, stored, refresh, refreshes>>

\* Tasks, risks, conflicts and decisions change under the computations.
WorkspaceChanges ==
  /\ changes < MaxChanges
  /\ changes' = changes + 1
  /\ workspace' \in [level : Levels, holding : SUBSET Conditions, advised : SUBSET Advice]
  /\ workspace' # workspace
  /\ UNCHANGED <<knowledge, stored, refresh, refreshes>>

\* _next_snapshot_version, as seen by a transaction holding project snapshot p.
NextSnapshotVersion(p) == 1 + (IF orgSnap.sv > p.sv THEN orgSnap.sv ELSE p.sv)

\* Of the rows another transaction has written it sees what is committed, and it
\* waits for that transaction before it writes the same row.
Holding(m) == refresh[m].pc # "idle" /\ refresh[m].held

\* A refresher that may begin.
MayStart(m) ==
  /\ refresh[m].pc = "idle"
  /\ refreshes < MaxRefreshes
  /\ refreshes' = refreshes + 1

\* A completed job, or a request for a full refresh, which draws the projects'
\* version before it starts.
StartRefresh(m) ==
  /\ MayStart(m)
  /\ \E request \in BOOLEAN :
       refresh' = [refresh EXCEPT ![m] =
         [pc |-> "project", request |-> request, held |-> FALSE, project |-> projSnap,
          sv |-> IF request THEN NextSnapshotVersion(projSnap) ELSE 0]]
  /\ UNCHANGED <<knowledge, workspace, changes, stored>>

\* get_dashboard, on its first look or when told to: it goes straight to the
\* organization.  Where no project has a snapshot it would go on with a full
\* refresh, and is taken for one from the start.
StartDashboard(m) ==
  /\ MayStart(m)
  /\ projSnap.sv # 0
  /\ refresh' = [refresh EXCEPT ![m] =
       [pc |-> "health", request |-> TRUE, held |-> FALSE, project |-> projSnap, sv |-> 0]]
  /\ UNCHANGED <<knowledge, workspace, changes, stored>>

\* materialize_project, up to its transaction: the memory score, then the versions.
ReadProject(m) ==
  /\ refresh[m].pc = "project"
  /\ refresh' = [refresh EXCEPT ![m].pc = "save project",
                   ![m].project = [sv |-> IF refresh[m].request THEN refresh[m].sv
                                          ELSE NextSnapshotVersion(projSnap),
                                   kv |-> knowledge]]
  /\ UNCHANGED <<knowledge, workspace, changes, stored, refreshes>>

SaveProject(m) ==
  /\ refresh[m].pc = "save project"
  /\ \A n \in Refreshers \ {m} : ~Holding(n)
  /\ refresh' = [refresh EXCEPT ![m].pc = "health", ![m].held = refresh[m].request]
  /\ projSnap' = IF refresh[m].request THEN projSnap ELSE refresh[m].project
  /\ UNCHANGED <<knowledge, workspace, changes, orgSnap, metrics, alerts, recs, predictions, refreshes>>

\* compute_health and compute_score: seven weighted dimensions.
HealthNow == workspace.level

\* The health first; then compute_analytics and organization_insights, whose
\* findings are stored whole beside it.
ReadHealth(m) ==
  /\ refresh[m].pc = "health"
  /\ refresh' = [refresh EXCEPT ![m] =
        [pc |-> "versions", request |-> @.request, held |-> @.held, project |-> @.project,
         level |-> HealthNow]]
  /\ UNCHANGED <<knowledge, workspace, changes, stored, refreshes>>

\* The knowledge version and the snapshot version are read after the health.
ReadVersions(m) ==
  /\ refresh[m].pc = "versions"
  /\ refresh' = [refresh EXCEPT ![m] =
        [pc |-> "write", request |-> @.request, held |-> @.held, project |-> @.project,
         level |-> @.level, kv |-> knowledge,
         sv |-> NextSnapshotVersion(IF @.held THEN @.project ELSE projSnap)]]
  /\ UNCHANGED <<knowledge, workspace, changes, stored, refreshes>>

\* _candidate_alerts, over the metric points including the one just appended.
Declines(points) ==
  Len(points) >= 2 /\ points[Len(points)] = "poor" /\ points[Len(points) - 1] = "good"
Candidates(points) == workspace.holding \cup (IF Declines(points) THEN {Decline} ELSE {})

Retired(row, status) == IF row.status = "open" THEN [row EXCEPT !.status = status] ELSE row

\* Mutant: an alert that still holds is left as it is.
AlertsNew(points, kv, sv) ==
  [a \in AlertKeys |-> IF a \in Candidates(points)
                       THEN IF alerts[a].status = "open" THEN alerts[a]
                            ELSE [status |-> "open", sv |-> sv, kv |-> kv, by |-> "refresh"]
                       ELSE Retired(alerts[a], "resolved")]

\* _materialize_alerts: a candidate is opened, whatever became of it before.
AlertsFrom(points, kv, sv) ==
  [a \in AlertKeys |-> IF a \in Candidates(points)
                       THEN [status |-> "open", sv |-> sv, kv |-> kv, by |-> "refresh"]
                       ELSE Retired(alerts[a], "resolved")]

\* explain_recommendations: what the workspace calls for now.
Advised == workspace.advised

\* _materialize_recommendations: an existing one keeps its status.
RecsFrom(kv, sv) ==
  [r \in Advice |-> IF r \in Advised
                    THEN [status |-> IF recs[r].status = "none" THEN "open" ELSE recs[r].status,
                          sv |-> sv, kv |-> kv, by |-> "refresh"]
                    ELSE Retired(recs[r], "done")]

\* predictive_health: a health that fell over at least three points.
Falling(points) ==
  Len(points) >= 3 /\ points[1] = "good" /\ points[Len(points)] = "poor"

\* _materialize_predictions: the old ones go, and what falls may be projected.
PredictionsFrom(points, sv) == IF Falling(points) THEN SUBSET {sv} ELSE {{}}

\* _append_metric_point: the trends are drawn anew from all the points.
MetricPoints(level) == Append(metrics, level)

\* The transaction of materialize_organization.  Its first statement locks the
\* snapshot's row, so what follows is read when no other refresh is writing.
WriteOrganization(m) ==
  /\ refresh[m].pc = "write"
  /\ LET f == refresh[m]
         points == MetricPoints(f.level)
     IN /\ orgSnap' = [sv |-> f.sv, kv |-> f.kv, level |-> f.level]
        /\ projSnap' = IF f.held THEN f.project ELSE projSnap
        /\ metrics' = points
        /\ alerts' = AlertsFrom(points, f.kv, f.sv)
        /\ recs' = RecsFrom(f.kv, f.sv)
        /\ predictions' \in PredictionsFrom(points, f.sv)
  /\ refresh' = [refresh EXCEPT ![m] = NoRefresh]
  /\ UNCHANGED <<knowledge, workspace, changes, refreshes>>

\* A computation raises: a request is rolled back, the subscriber keeps what it
\* has committed.
AbandonRefresh(m) ==
  /\ refresh[m].pc # "idle"
  /\ refresh' = [refresh EXCEPT ![m] = NoRefresh]
  /\ UNCHANGED <<knowledge, workspace, changes, stored, refreshes>>

\* set_alert_status and set_recommendation_status take any status.
SetAlertStatus(a, status) ==
  /\ alerts[a].status \notin {"none", status}
  /\ changes < MaxChanges /\ changes' = changes + 1
  /\ alerts' = [alerts EXCEPT ![a].status = status, ![a].by = "user"]
  /\ UNCHANGED <<knowledge, workspace, orgSnap, projSnap, metrics, recs, predictions, refresh, refreshes>>
SetRecommendationStatus(r, status) ==
  /\ recs[r].status \notin {"none", status}
  /\ changes < MaxChanges /\ changes' = changes + 1
  /\ recs' = [recs EXCEPT ![r].status = status, ![r].by = "user"]
  /\ UNCHANGED <<knowledge, workspace, orgSnap, projSnap, metrics, alerts, predictions, refresh, refreshes>>

RefreshStep ==
  \E m \in Refreshers :
    \/ StartRefresh(m) \/ StartDashboard(m) \/ ReadProject(m) \/ SaveProject(m)
    \/ ReadHealth(m) \/ ReadVersions(m) \/ WriteOrganization(m) \/ AbandonRefresh(m)

UserStep ==
  \/ \E a \in AlertKeys, s \in AlertStatus : SetAlertStatus(a, s)
  \/ \E r \in Advice, s \in RecommendationStatus : SetRecommendationStatus(r, s)

ExecutiveNext == NewKnowledge \/ WorkspaceChanges \/ RefreshStep \/ UserStep

ExecutiveSpec == ExecutiveInit /\ [][ExecutiveNext]_executiveVars

-----------------------------------------------------------------------------
\* What the dashboard shows beside the snapshot was written with it: the open
\* alerts and recommendations, unless a user opened them, and every prediction.
DashboardIsOneWrite ==
  /\ \A a \in AlertKeys : (alerts[a].status = "open" /\ alerts[a].by = "refresh") =>
       alerts[a].sv = orgSnap.sv /\ alerts[a].kv = orgSnap.kv
  /\ \A r \in Advice : (recs[r].status = "open" /\ recs[r].by = "refresh") =>
       recs[r].sv = orgSnap.sv /\ recs[r].kv = orgSnap.kv
  /\ predictions \subseteq {orgSnap.sv}
=============================================================================
