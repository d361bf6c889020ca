---------------------------- MODULE Suggestions ----------------------------
(* AI suggestions for one meeting and their review (workspace/services/
   materialize.py, activity.py, AISuggestionViewSet): what the analysis found is
   suggested, a user approves, rejects or archives it, and only an approval makes
   a record, with an entry in the activity log.

   Every completed job of the meeting materializes its current analysis, in the
   job's thread; every review is a request that reads the suggestion, and commits
   when it ends.  Nothing is locked between. *)
EXTENDS Naturals, Sequences, FiniteSets

CONSTANTS
  Items,          \* what an analysis can find: a type and a title (CharFields: there
                  \* are finitely many)
  TaskItems,      \* those that are tasks
  Workers,        \* job threads
  Reviewers,      \* requests of the owner
  MaxAnalyses,    \* bound on analyses after the first
  MaxTasks,       \* bound on the tasks the user makes
  MaxRuns,        \* bound on materializations
  MaxReviews      \* bound on review requests

ASSUME SuggestionsAssumption ==
  /\ IsFiniteSet(Items) /\ TaskItems \subseteq Items
  /\ {MaxAnalyses, MaxTasks, MaxRuns, MaxReviews} \subseteq Nat

Modes == {"suggestions_only", "auto_high", "always"}    \* AI_SUGGESTION_MODE
Acts == {"approve", "merge", "update", "reject", "archive"}
\* "open" is pending or needs_review: a review treats them alike.
ApprovalStatus == {"open", "converted", "rejected", "archived"}

VARIABLES
  mode,         \* the setting
  analysis,     \* the items of the meeting's current AIAnalysis
  analyses,
  suggestions,  \* Seq: AISuggestion rows, never deleted
  records,      \* Seq: the tasks, issues, decisions, risks and follow-ups ever made.
                \* What one says is left out: an approval may edit it, and so may the
                \* user; one that is deleted leaves its id in the log.
  activity,     \* ActivityLog: [verb, kind, id]
  worker,       \* [Workers -> what a materialization has read]
  runs,
  review,       \* [Reviewers -> what a request has read]
  reviews,
  contested,    \* history: suggestions reviewed by two requests at once, or
                \* approved after they had been rejected or archived
  crossed       \* history: two materializations have overlapped

suggestionsVars == <<mode, analysis, analyses, suggestions, records, activity, worker,
                     runs, review, reviews, contested, crossed>>

Resting == [pc |-> "idle"]

SuggestionsInit ==
  /\ mode \in Modes
  /\ analysis = {}
  /\ analyses = 0
  /\ suggestions = <<>>
  /\ records = <<>>
  /\ activity = {}
  /\ worker = [w \in Workers |-> Resting]
  /\ runs = 0
  /\ review = [u \in Reviewers |-> Resting]
  /\ reviews = 0
  /\ contested = {}
  /\ crossed = FALSE

Analyse ==
  /\ analyses < MaxAnalyses
  /\ analyses' = analyses + 1
  /\ analysis' \in SUBSET Items \ {{}}
  /\ UNCHANGED <<mode, suggestions, records, activity, worker, runs, review, reviews, contested, crossed>>

\* A task the user makes: a later approval can be merged into it.
CreateTask ==
  /\ Cardinality({r \in DOMAIN records : records[r].suggestion = 0}) < MaxTasks
  /\ records' = Append(records, [task |-> TRUE, suggestion |-> 0])
  /\ activity' = activity \cup {[verb |-> "created", kind |-> "record", id |-> Len(records) + 1]}
  /\ UNCHANGED <<mode, analysis, analyses, suggestions, worker, runs, review, reviews, contested, crossed>>

\* Mutant: only suggestions that are still open, or were approved, count.
ExistingLive ==
  {suggestions[s].item : s \in {q \in DOMAIN suggestions :
                                suggestions[q].status \notin {"rejected", "archived"}}}

\* The rows of every status: a rejected item is not suggested again.
Existing == {suggestions[s].item : s \in DOMAIN suggestions}

\* on_job_completed: the current analysis, and materialize's first query.
ReadExisting(w) ==
  /\ worker[w].pc = "idle"
  /\ runs < MaxRuns
  /\ analyses > 0
  /\ runs' = runs + 1
  /\ worker' = [worker EXCEPT ![w] = [pc |-> "read", items |-> analysis \ Existing]]
  /\ crossed' = (crossed \/ \E v \in Workers : worker[v].pc # "idle")
  /\ UNCHANGED <<mode, analysis, analyses, suggestions, records, activity, review, reviews, contested>>

\* What is approved at once of the items: in one mode the score decides.
AutoApproved(items) ==
  CASE mode = "always" -> {items}
    [] mode = "auto_high" -> SUBSET items
    [] mode = "suggestions_only" -> {{}}

\* A record for suggestion s, its conversion and its entry in the log.
Log(verb, r) == [verb |-> verb, kind |-> "record", id |-> r]
Record(i, s) == [task |-> i \in TaskItems, suggestion |-> s]

\* materialize is one transaction; it emits the tasks first, then the rest.
Emit(w) ==
  /\ worker[w].pc = "read"
  /\ \E order \in [1..Cardinality(worker[w].items) -> worker[w].items],
        approved \in AutoApproved(worker[w].items) :
       LET n == Len(suggestions)
           auto == {k \in DOMAIN order : order[k] \in approved}
           rank(k) == Len(records) + Cardinality({j \in auto : j <= k})
       IN /\ {order[k] : k \in DOMAIN order} = worker[w].items
          /\ \A j, k \in DOMAIN order : (j < k /\ order[k] \in TaskItems) => order[j] \in TaskItems
          /\ suggestions' = suggestions \o [k \in DOMAIN order |->
               IF k \in auto THEN [item |-> order[k], status |-> "converted", record |-> rank(k)]
               ELSE [item |-> order[k], status |-> "open", record |-> 0]]
          /\ records' = records \o [j \in 1..Cardinality(auto) |->
               LET k == CHOOSE k \in auto : Cardinality({i \in auto : i <= k}) = j
               IN Record(order[k], n + k)]
          /\ activity' = activity \cup {Log("approved", rank(k)) : k \in auto}
  /\ worker' = [worker EXCEPT ![w] = Resting]
  /\ UNCHANGED <<mode, analysis, analyses, runs, review, reviews, contested, crossed>>

\* Grounding raises: nothing of the materialization remains.
EmitFails(w) ==
  /\ worker[w].pc = "read"
  /\ worker' = [worker EXCEPT ![w] = Resting]
  /\ UNCHANGED <<mode, analysis, analyses, suggestions, records, activity, runs, review, reviews, contested, crossed>>

UnderReview == UNION {review[u].ids : u \in {v \in Reviewers : review[v].pc # "idle"}}
Closed == {s \in DOMAIN suggestions : suggestions[s].status \in {"rejected", "archived"}}

\* get_object, or the queryset of a bulk action.
OpenReview(u, act, ids) ==
  /\ review[u].pc = "idle"
  /\ reviews < MaxReviews
  /\ Cardinality(ids) > 1 => act \in {"approve", "reject", "archive"}
  /\ reviews' = reviews + 1
  /\ review' = [review EXCEPT ![u] =
        [pc |-> "read", act |-> act, ids |-> ids, status |-> [s \in ids |-> suggestions[s].status]]]
  /\ contested' = contested \cup (ids \cap UnderReview)
                  \cup (IF act \in {"reject", "archive"} THEN {} ELSE ids \cap Closed)
  /\ UNCHANGED <<mode, analysis, analyses, suggestions, records, activity, worker, runs, crossed>>

\* Mutant: it does not ask.
ApprovedAnyway(status, ids) == ids

\* approve_suggestion returns at once for what was found converted.
Approved(status, ids) == {s \in ids : status[s] # "converted"}

\* find_duplicate_tasks: what looks most like s, if anything does; only asked for by
\* merge and update.  How alike two titles are is a choice, so any task may be it.
DuplicateTasks(act, s) ==
  IF act \in {"merge", "update"} /\ suggestions[s].item \in TaskItems
  THEN {r \in DOMAIN records : records[r].task}
  ELSE {}

\* The approval of every s of ids: the record it is converted to is a duplicate
\* task or a new one; new ones are appended in the order of the suggestions.
Approve(act, ids, dup) ==
  LET new == {s \in ids : dup[s] = 0}
      target(s) == IF dup[s] # 0 THEN dup[s] ELSE Len(records) + Cardinality({q \in new : q <= s})
  IN /\ suggestions' = [s \in DOMAIN suggestions |->
           IF s \in ids THEN [suggestions[s] EXCEPT !.status = "converted", !.record = target(s)]
           ELSE suggestions[s]]
     /\ records' = records \o [j \in 1..Cardinality(new) |->
           LET s == CHOOSE s \in new : Cardinality({q \in new : q <= s}) = j
           IN Record(suggestions[s].item, s)]
     /\ activity' = activity \cup {Log("approved", target(s)) : s \in ids}
                             \cup {Log("merged", dup[s]) : s \in ids \ new}

CommitApproval(u) ==
  /\ review[u].pc = "read"
  /\ review[u].act \in {"approve", "merge", "update"}
  /\ LET ids == Approved(review[u].status, review[u].ids) IN
     \E dup \in [ids -> {0} \cup DOMAIN records] :
       /\ \A s \in ids : dup[s] \in {0} \cup DuplicateTasks(review[u].act, s)
       /\ Approve(review[u].act, ids, dup)
  /\ review' = [review EXCEPT ![u] = Resting]
  /\ UNCHANGED <<mode, analysis, analyses, worker, runs, reviews, contested, crossed>>

\* reject_suggestion and the bulk archive ask for no status: what has been
\* converted keeps its record.
CommitClosing(u) ==
  /\ review[u].pc = "read"
  /\ review[u].act \in {"reject", "archive"}
  /\ suggestions' = [s \in DOMAIN suggestions |->
        IF s \in review[u].ids
        THEN [suggestions[s] EXCEPT !.status = IF review[u].act = "reject" THEN "rejected" ELSE "archived"]
        ELSE suggestions[s]]
  /\ activity' = IF review[u].act = "archive" THEN activity
                 ELSE activity \cup {[verb |-> "rejected", kind |-> "suggestion", id |-> s] : s \in review[u].ids}
  /\ review' = [review EXCEPT ![u] = Resting]
  /\ UNCHANGED <<mode, analysis, analyses, records, worker, runs, reviews, contested, crossed>>

SuggestionsNext ==
  \/ Analyse
  \/ CreateTask
  \/ \E w \in Workers : ReadExisting(w) \/ Emit(w) \/ EmitFails(w)
  \/ \E u \in Reviewers :
       \/ \E act \in Acts, ids \in SUBSET DOMAIN suggestions \ {{}} : OpenReview(u, act, ids)
       \/ CommitApproval(u) \/ CommitClosing(u)

SuggestionsSpec == SuggestionsInit /\ [][SuggestionsNext]_suggestionsVars

-----------------------------------------------------------------------------
\* What was found once is suggested once, whatever became of it, as long as no
\* two materializations of the meeting overlapped.
SuggestedOnce ==
  ~crossed => \A s, q \in DOMAIN suggestions : suggestions[s].item = suggestions[q].item => s = q

\* What suggestion s became: a record made of it or, of a task, a task there was.
Became(s, r) ==
  /\ r \in DOMAIN records
  /\ records[r].suggestion = s \/ (suggestions[s].item \in TaskItems /\ records[r].task)

\* Every record the AI made, and what every converted suggestion became (a record
\* made of it, or a task it was merged into), has its approval in the log; and a
\* suggestion made one record at most, unless reviews of it overlapped or it was
\* approved after it had been closed (approve_suggestion).
ApprovalIsTraced ==
  /\ \A r \in DOMAIN records : records[r].suggestion # 0 => Log("approved", r) \in activity
  /\ \A s \in DOMAIN suggestions : suggestions[s].status = "converted" =>
       /\ Became(s, suggestions[s].record)
       /\ Log("approved", suggestions[s].record) \in activity
  /\ \A s \in DOMAIN suggestions \ contested :
       Cardinality({r \in DOMAIN records : records[r].suggestion = s}) <= 1

=============================================================================
