----------------------------- MODULE MCRequests -----------------------------
(* What a user asks for, on small instances: suggestions and their review, plans of
   agents, the session of the browser, the password of the account, reports,
   benchmark recordings, the demo workspace, and a transcript with its speakers.

   As in MCKnowledge, what one of them reads back and another writes is written by an
   action of its own (Analyse, JobEnds), so a behaviour moves the component in focus
   and the others stay in their initial state. *)
EXTENDS Suggestions, AgentPlanner, AuthSession, Accounts, Reports, Benchmarks,
        Demo, Speakers, TLC

\* What two threads, tabs, links, plans, sessions or reviewers do is alike, and
\* what two agents, requests, resets, segments or speakers do.
AlikeRequests == Permutations(Plans) \cup Permutations(Agents) \cup Permutations(SpeakerRows)

\* Two plans share nothing but an approval: here only a held one has a second.
HeldOrAlone ==
  \A p, q \in Plans : p # q => "none" \in {step[p], step[q]}
                              \/ "pending_approval" \in {plan[p].status, plan[q].status}

\* An access token that expires can be replaced: the last pair stays good.
Replaceable == MaxPairs \notin expired

\* An access token that nobody holds or sends may expire when somebody does.
ExpiresInUse ==
  \A n \in expired' \ expired : \/ \E t \in Tabs : tab[t] = n
                               \/ \E c \in Calls : call[c].state # "none" /\ call[c].access = n

\* Of the logins of a behaviour one is shared, left or logged out, another stands beside
\* it; one request is adrift at a time.
OneInTrouble == Cardinality(tangled \cup ended \cup overtaken) <= 1 /\ Cardinality(adrift) <= 1

\* Nothing calls rediarize_meeting: only the pipeline is at work beside it.
DiarizesAlone ==
  \A r, q \in Edits : r # q => ~(pending[r].kind = "diarize" /\ pending[q].kind # "idle")

VARIABLE focus

Init ==
  /\ focus \in {"suggestions", "planner", "auth", "accounts", "reports", "benchmarks",
               "demo", "speakers"}
  /\ SuggestionsInit /\ PlannerInit /\ AuthInit /\ AccountsInit /\ ReportsInit /\ BenchmarksInit
  /\ DemoInit /\ SpeakersInit
  /\ focus # "speakers" => \A g \in Places : segment[g].ref = Nobody
  \* Each behaviour of the other two modes is one of this mode, with other scores.
  /\ mode = "auto_high"

Next ==
  /\ UNCHANGED focus
  /\ \/ /\ focus = "suggestions" /\ SuggestionsNext
        /\ UNCHANGED <<plannerVars, authVars, accountVars, reportVars, benchmarkVars,
                       demoVars, speakersVars>>
     \/ /\ focus = "planner" /\ PlannerNext /\ HeldOrAlone'
        /\ UNCHANGED <<suggestionsVars, authVars, accountVars, reportVars, benchmarkVars,
                       demoVars, speakersVars>>
     \/ /\ focus = "auth" /\ AuthNext /\ Replaceable' /\ ExpiresInUse /\ OneInTrouble'
        /\ UNCHANGED <<suggestionsVars, plannerVars, accountVars, reportVars, benchmarkVars,
                       demoVars, speakersVars>>
     \/ /\ focus = "accounts" /\ AccountsNext
        /\ UNCHANGED <<suggestionsVars, plannerVars, authVars, reportVars, benchmarkVars,
                       demoVars, speakersVars>>
     \/ /\ focus = "reports" /\ ReportsNext
        /\ UNCHANGED <<suggestionsVars, plannerVars, authVars, accountVars, benchmarkVars,
                       demoVars, speakersVars>>
     \/ /\ focus = "benchmarks" /\ BenchmarksNext
        /\ UNCHANGED <<suggestionsVars, plannerVars, authVars, accountVars, reportVars,
                       demoVars, speakersVars>>
     \/ /\ focus = "demo" /\ DemoNext
        /\ UNCHANGED <<suggestionsVars, plannerVars, authVars, accountVars, reportVars,
                       benchmarkVars, speakersVars>>
     \/ /\ focus = "speakers" /\ SpeakersNext /\ DiarizesAlone'
        /\ UNCHANGED <<suggestionsVars, plannerVars, authVars, accountVars, reportVars,
                       benchmarkVars, demoVars>>

Spec == Init /\ [][Next]_<<focus, suggestionsVars, plannerVars, authVars, accountVars,
                           reportVars, benchmarkVars, demoVars, speakersVars>>
=============================================================================
