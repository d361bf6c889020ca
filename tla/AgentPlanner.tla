---------------------------- MODULE AgentPlanner ----------------------------
(* Orchestrated agent runs (agents/planner/service.py, framework/executor.py,
   PlannerRunView and PlannerApproveView): a request is turned into a plan, the
   plan selects agents and runs each in a thread of its own, a failed agent once
   more, and what they found is merged into one answer.  A plan can be held for
   a person's approval first.

   The planner's views are outside the request's transaction: every save commits
   at once, so a process that stops leaves the rows as they are. *)
EXTENDS Naturals, Sequences, FiniteSets

CONSTANTS
  Plans,          \* PlannerRun rows that can be made
  Agents,         \* the agents of the registry that an intent can name
  MaxRestarts     \* bound on restarts of the server

ASSUME PlannerAssumption == MaxRestarts \in Nat

VARIABLES
  plan,        \* [Plans -> PlannerRun row; status "none" before it is created]
  run,         \* [Plans -> [Agents -> Seq of AgentRun statuses, oldest first]]
  step,        \* [Plans -> where PlannerService.run stands]
  task,        \* [Plans -> [Agents -> the future of an agent's thread]]
  collected,   \* [Plans -> agents whose futures as_completed has handed over]
  late,        \* [Plans -> BOOLEAN] as_completed timed out
  asked,       \* [Plans -> BOOLEAN] the request's require_approval
  granted,     \* [Plans -> the held plans whose approval started this one]
  restarts

plannerVars == <<plan, run, step, task, collected, late, asked, granted, restarts>>

NoPlan == [status |-> "none", selected |-> {}, approved |-> FALSE, result |-> {}, steps |-> FALSE]
Outcomes == {"found", "empty", "failed"}
Finished == Outcomes \cup {"raised", "none", "lost"}

PlannerInit ==
  /\ plan = [p \in Plans |-> NoPlan]
  /\ run = [p \in Plans |-> [a \in Agents |-> <<>>]]
  /\ step = [p \in Plans |-> "none"]
  /\ task = [p \in Plans |-> [a \in Agents |-> "none"]]
  /\ collected = [p \in Plans |-> {}]
  /\ late = [p \in Plans |-> FALSE]
  /\ asked = [p \in Plans |-> FALSE]
  /\ granted = [p \in Plans |-> {}]
  /\ restarts = 0

\* PlannerService.run, first save.
Created == [NoPlan EXCEPT !.status = "running"]

Request(p, hold) ==
  /\ step[p] = "none"
  /\ plan' = [plan EXCEPT ![p] = Created]
  /\ step' = [step EXCEPT ![p] = "intent"]
  /\ asked' = [asked EXCEPT ![p] = hold]
  /\ UNCHANGED <<run, task, collected, late, granted, restarts>>

\* approve is passed only by PlannerService.approve.
Held(p) == asked[p] /\ granted[p] = {}

\* analyze_intent and select_agents name the agents; a held plan stops here.
Select(p, agents) ==
  /\ step[p] = "intent"
  /\ agents # {}
  /\ IF Held(p)
     THEN /\ plan' = [plan EXCEPT ![p].status = "pending_approval", ![p].selected = agents]
          /\ step' = [step EXCEPT ![p] = "saving"]
          /\ UNCHANGED task
     ELSE /\ plan' = [plan EXCEPT ![p].selected = agents]
          /\ step' = [step EXCEPT ![p] = "executing"]
          /\ task' = [task EXCEPT ![p] = [a \in Agents |-> IF a \in agents THEN "queued" ELSE "none"]]
  /\ UNCHANGED <<run, collected, late, asked, granted, restarts>>

\* executor.run creates the row ...
BeginRun(p, a) ==
  /\ task[p][a] = "queued"
  /\ run' = [run EXCEPT ![p][a] = Append(@, "running")]
  /\ task' = [task EXCEPT ![p][a] = "working"]
  /\ UNCHANGED <<plan, step, collected, late, asked, granted, restarts>>

\* _run_one: a failed run is run once more.
AfterRun(p, a, outcome) ==
  IF outcome = "failed" /\ Len(run[p][a]) = 1 THEN "queued" ELSE outcome

\* ... and saves how it ended.
EndRun(p, a, outcome) ==
  /\ task[p][a] = "working"
  /\ run' = [run EXCEPT ![p][a][Len(run[p][a])] = IF outcome = "failed" THEN "failed" ELSE "succeeded"]
  /\ task' = [task EXCEPT ![p][a] = AfterRun(p, a, outcome)]
  /\ UNCHANGED <<plan, step, collected, late, asked, granted, restarts>>

\* The database refuses a save: the thread ends, a row it made stays running.
TaskRaises(p, a) ==
  /\ task[p][a] \in {"queued", "working"}
  /\ task' = [task EXCEPT ![p][a] = "raised"]
  /\ UNCHANGED <<plan, run, step, collected, late, asked, granted, restarts>>

\* as_completed hands over a future; an exception in it leaves the loop.
Collect(p, a) ==
  /\ step[p] = "executing"
  /\ a \in plan[p].selected \ collected[p]
  /\ task[p][a] \in Outcomes \cup {"raised"}
  /\ IF task[p][a] = "raised"
     THEN step' = [step EXCEPT ![p] = "raised"] /\ UNCHANGED collected
     ELSE collected' = [collected EXCEPT ![p] = @ \cup {a}] /\ UNCHANGED step
  /\ UNCHANGED <<plan, run, task, late, asked, granted, restarts>>

\* agent_timeout_s; a single agent is run without a pool.
Timeout(p) ==
  /\ step[p] = "executing"
  /\ Cardinality(plan[p].selected) > 1
  /\ collected[p] # plan[p].selected
  /\ step' = [step EXCEPT ![p] = "draining"]
  /\ late' = [late EXCEPT ![p] = TRUE]
  /\ UNCHANGED <<plan, run, task, collected, asked, granted, restarts>>

\* Mutant: the pool is left without waiting for its threads.
DrainedAtOnce(p) == TRUE

\* Leaving the pool waits for every thread, after a timeout too.
Drained(p) == \A a \in Agents : task[p][a] \in Finished

Drain(p) ==
  /\ step[p] \in {"draining", "raised"} \/ (step[p] = "executing" /\ collected[p] = plan[p].selected)
  /\ Drained(p)
  /\ step' = [step EXCEPT ![p] = IF step[p] = "raised" THEN "over" ELSE "merging"]
  /\ UNCHANGED <<plan, run, task, collected, late, asked, granted, restarts>>

\* ResultMerger.merge: the answers that found something, or else all of them.
Pool(p, agents) ==
  LET ended(o) == {a \in agents : task[p][a] = o}
  IN IF ended("found") # {} THEN ended("found") ELSE ended("empty")

\* The row _finalize saves, with the approval noted before the agents ran.
Answered(p) ==
  [plan[p] EXCEPT !.status = "succeeded",
                  !.approved = granted[p] # {} \/ ~asked[p],
                  !.result = Pool(p, collected[p])]

\* Merge, validate, _finalize.
Finish(p) ==
  /\ step[p] = "merging"
  /\ plan' = [plan EXCEPT ![p] = Answered(p)]
  /\ step' = [step EXCEPT ![p] = "saving"]
  /\ UNCHANGED <<run, task, collected, late, asked, granted, restarts>>

PersistSteps(p) ==
  /\ step[p] = "saving"
  /\ plan' = [plan EXCEPT ![p].steps = TRUE]
  /\ step' = [step EXCEPT ![p] = "over"]
  /\ UNCHANGED <<run, task, collected, late, asked, granted, restarts>>

\* An exception in the view's own thread: nothing marks the plan as failed.
PlanRaises(p) ==
  /\ step[p] \in {"intent", "merging", "saving"}
  /\ step' = [step EXCEPT ![p] = "over"]
  /\ UNCHANGED <<plan, run, task, collected, late, asked, granted, restarts>>

\* PlannerApproveView: the held plan is marked, and its request is run anew.
ApprovePlan(p) ==
  /\ plan[p].status = "pending_approval"
  /\ \/ UNCHANGED <<step, granted>> /\ plan' = [plan EXCEPT ![p].approved = TRUE]
     \/ \E q \in Plans :
          /\ step[q] = "none"
          /\ plan' = [plan EXCEPT ![p].approved = TRUE, ![q] = Created]
          /\ step' = [step EXCEPT ![q] = "intent"]
          /\ granted' = [granted EXCEPT ![q] = {p}]
  /\ UNCHANGED <<run, task, collected, late, asked, restarts>>

\* The server restarts: its threads are gone, and nothing looks for their rows.
Restart ==
  /\ restarts < MaxRestarts
  /\ \E p \in Plans : step[p] \notin {"none", "over"}
  /\ restarts' = restarts + 1
  /\ step' = [p \in Plans |-> IF step[p] = "none" THEN "none" ELSE "over"]
  /\ task' = [p \in Plans |-> [a \in Agents |->
                IF task[p][a] \in {"queued", "working"} THEN "lost" ELSE task[p][a]]]
  /\ UNCHANGED <<plan, run, collected, late, asked, granted>>

PlannerNext ==
  \/ \E p \in Plans :
       \/ \E hold \in BOOLEAN : Request(p, hold)
       \/ \E agents \in SUBSET Agents : Select(p, agents)
       \/ \E a \in Agents :
            \/ BeginRun(p, a)
            \/ \E outcome \in Outcomes : EndRun(p, a, outcome)
            \/ TaskRaises(p, a)
            \/ Collect(p, a)
       \/ Timeout(p) \/ Drain(p) \/ Finish(p) \/ PersistSteps(p) \/ PlanRaises(p) \/ ApprovePlan(p)
  \/ Restart

PlannerSpec == PlannerInit /\ [][PlannerNext]_plannerVars

(* Type invariant. *)
PlannerTypeOK ==
  /\ plan \in [Plans -> [status : {"none", "running", "pending_approval", "succeeded"},
                         selected : SUBSET Agents, approved : BOOLEAN,
                         result : SUBSET Agents, steps : BOOLEAN]]
  /\ run \in [Plans -> [Agents -> Seq({"running", "failed", "succeeded"})]]
  /\ step \in [Plans -> {"none", "intent", "executing", "draining", "raised", "merging", "saving", "over"}]
  /\ task \in [Plans -> [Agents -> Finished \cup {"queued", "working"}]]
  /\ collected \in [Plans -> SUBSET Agents]
  /\ late \in [Plans -> BOOLEAN]
  /\ asked \in [Plans -> BOOLEAN]
  /\ granted \in [Plans -> SUBSET Plans]
  /\ restarts \in 0..MaxRestarts

(* A finished answer is whole (PlannerService._parallel and merge): no agent of a
   plan that has succeeded is still at work, not even after a timeout; unless
   there was one, every agent whose last run found something is in the answer;
   and no answer rests on an agent whose last run failed. *)
PlanIsWhole ==
  \A p \in Plans : plan[p].status = "succeeded" =>
    /\ \A a \in Agents : task[p][a] \in Finished
    /\ ~late[p] => plan[p].result = Pool(p, plan[p].selected)
    /\ \A a \in plan[p].result : run[p][a][Len(run[p][a])] = "succeeded"
    /\ \A a \in plan[p].selected \ plan[p].result :
         ~late[p] => (task[p][a] = "failed" => Len(run[p][a]) = 2)

(* Nothing runs without the approval it asked for (MUTATING_AGENTS' gate): a plan
   that is or was held has no agent runs, and a plan an approval started answers
   a plan that is still held and marked as approved. *)
HeldRunsNothing ==
  \A p \in Plans :
    /\ (asked[p] \/ plan[p].status = "pending_approval") => \A a \in Agents : run[p][a] = <<>>
    /\ \A q \in granted[p] : plan[q].status = "pending_approval" /\ plan[q].approved
=============================================================================
