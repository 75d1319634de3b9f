---------------------------- MODULE PlanExecutor ----------------------------
(***************************************************************************)
(* PlanExecutor.execute (application/execution.py): an accepted plan runs  *)
(* step by step against 1C and the built-in help, required steps first; a  *)
(* step may fail, come back empty, partial or ambiguous, and what ran is   *)
(* reduced to one outcome, to context exports, to a page handle or to a    *)
(* question.  A question that the user answers by choosing a candidate     *)
(* starts the same plan again with the chosen step already resolved        *)
(* (chat.py: _run_clarification).                                          *)
(*                                                                         *)
(* One action is the code between two awaits: the reply of 1C or of the    *)
(* help index decides one step.  A reply is abstracted to the number of    *)
(* rows, whether there are more, how many rows prove an identity, and      *)
(* whether an aggregate is zero.                                           *)
(***************************************************************************)
EXTENDS PlanContract, FiniteSetsExt, Functions

CONSTANTS
    Plans,      \* accepted plans
    PageSize,   \* rows of a page; a request asks for one more
    MaxMembers, \* selected_only policy: the members of a selected set
    MaxChoices, \* candidates a question may list
    MaxRounds   \* bound: answers to questions about one plan

VARIABLES
    plan,       \* the plan being run
    result,     \* step_results, by step
    blocked,    \* failed_or_blocked without the steps that ran
    stopAll,    \* stop_all
    status,     \* "running", or how the run ended
    report,     \* ExecutionResult: outcome, exports, question, page
    resumed,    \* the step resolved by the answer being resumed, or 0
    answered    \* resolvers the user has chosen for, in order

run == <<plan, result, blocked, stopAll, resumed, answered>>
vars == <<plan, result, blocked, stopAll, status, report, resumed, answered>>

ExecutorAssumption ==
    /\ PageSize \in Nat \ {0}
    /\ MaxMembers \in Nat \ {0}
    /\ MaxChoices \in Nat
    /\ \A p \in Plans :
          /\ Len(p) \in Nat \ {0} /\ DOMAIN p = 1 .. Len(p) /\ PlanAccepted(p)
          /\ \A s \in Positions(p) : p[s] \in PlanSteps
    /\ MaxRounds \in Nat

ASSUME ExecutorAssumption

Steps == Positions(plan)
Skill(s) == plan[s].skill

StepOutcomes ==
    {"success_with_rows", "success_empty", "zero_aggregate", "partial",
     "documentation_found", "documentation_empty", "query_error",
     "contract_error", "mcp_unavailable", "clarification_required"}

Failures == {"query_error", "mcp_unavailable", "contract_error"}

Results ==
    [outcome: StepOutcomes \cup {"not_run"},
     rows: Nat,          \* facts of the visible rows
     ids: Nat,           \* distinct identities with their role proofs
     more: BOOLEAN,      \* has_more and truncated
     draft: BOOLEAN,     \* a ContinuationDraft
     scope: {"visible_page", "complete_set"},
     reason: {"none", "not_found", "no_rows"},
     whole: BOOLEAN]     \* rank_input_complete

Made(outcome, rows, ids, scope) ==
    [outcome |-> outcome, rows |-> rows, ids |-> ids, more |-> FALSE, draft |-> FALSE,
     scope |-> scope, reason |-> "none", whole |-> FALSE]

NotRun == Made("not_run", 0, 0, "complete_set")

Ran(s) == result[s].outcome # "not_run"

(* The resumed step: the chosen candidate is its only row. *)
Resumed == [Made("success_with_rows", 1, 1, "complete_set") EXCEPT !.whole = TRUE]

NoReport == [outcome |-> "none", exports |-> {}, question |-> 0, narrow |-> FALSE, page |-> 0]

Reports ==
    [outcome: StepOutcomes \cup {"none"}, exports: SUBSET (Nat \ {0}),
     question: Nat, narrow: BOOLEAN, page: Nat]

(***************************************************************************)
(* Which step is next                                                      *)
(***************************************************************************)
Required == RequiredSteps(plan)

Open(s) == ~Ran(s) /\ s \notin blocked

RequiredFailed == \E s \in Required : result[s].outcome \in Failures

BadCandidates ==
    IF stopAll \/ RequiredFailed THEN {}
    ELSE IF \E s \in Required : Open(s) THEN {s \in Required : Open(s)}
    ELSE {s \in Steps : Open(s)}

(* Required steps in plan order, then the others if no required one failed. *)
Candidates ==
    IF stopAll THEN {}
    ELSE IF \E s \in Required : Open(s) THEN {s \in Required : Open(s)}
    ELSE IF RequiredFailed THEN {}
    ELSE {s \in Steps : Open(s)}

IsNext(s) == s \in Candidates /\ \A t \in Candidates : s <= t

BadFailedOrBlocked ==
    {s \in Steps :
        \/ result[s].outcome \in Failures
        \/ plan[s].kind = "rank" /\ result[s].outcome = "success_empty"}

(* failed_or_blocked: a failed step, an empty rank and their descendants. *)
FailedOrBlocked ==
    blocked \cup {s \in Steps :
        \/ result[s].outcome \in Failures
        \/ plan[s].kind = "rank" /\ result[s].outcome = "success_empty"}

Running == status = "running" /\ UsesAgree(plan)

Runnable(s) ==
    /\ Running
    /\ IsNext(s)
    /\ StepDependencies(plan[s]) \cap FailedOrBlocked = {}

(***************************************************************************)
(* What a step makes of its reply                                          *)
(***************************************************************************)

(* Replies without rows a step can use: 1C is away, refuses the query, or   *)
(* sends columns, values or rows that break the skill's contract.          *)
Unusable ==
    [kind: {"unavailable", "error", "violation"}, rows: {0}, more: {FALSE}, ids: {0}, zero: {FALSE}]

(* Rows, and how many of them prove an identity. *)
Usable ==
    {reply \in [kind: {"rows"}, rows: 0 .. (PageSize + 1), more: BOOLEAN,
                ids: 0 .. PageSize, zero: BOOLEAN] : reply.ids <= reply.rows}

(* Replies of 1C.  `more` is what the envelope says beyond the probe row. *)
Replies == Unusable \cup Usable

HasMore(reply) == reply.rows > PageSize \/ reply.more

OnPage(n) == IF n < PageSize THEN n ELSE PageSize

(* A binding of the step has its value: one fact for "one", any number for *)
(* "many"; a resolver's identity counts its proven identities.             *)
Provided(s, card) ==
    card = "many" \/ (IF IsResolver(plan[s]) THEN result[s].ids ELSE result[s].rows) = 1

BindingsResolve(s) ==
    \A read \in plan[s].reads \cup plan[s].slots :
        Ran(read[1]) /\ Provided(read[1], read[2])

(* _empty_step: what no rows mean to the skill. *)
EmptyResult(skill, complete) ==
    LET bare(outcome) == Made(outcome, 0, 0, SkillScope(skill))
    IN  IF skill.empty = "forbidden" THEN bare("contract_error")
        ELSE [bare("success_empty") EXCEPT !.reason = skill.empty, !.whole = complete]

Refusal == [unavailable |-> "mcp_unavailable", error |-> "query_error",
            violation |-> "contract_error"]

(* _execute_data, in the order of its checks. *)
DataResult(skill, reply, rankInput) ==
    LET scope == SkillScope(skill)
        bare(outcome) == Made(outcome, 0, 0, scope)
        complete == rankInput /\ ~HasMore(reply)
        broken ==
            \/ skill.shape = "aggregate" /\ reply.rows # 1
            \/ HasMore(reply) /\ (~skill.paged \/ skill.truncation = "error")
    IN  IF reply.kind # "rows" THEN bare(Refusal[reply.kind])
        ELSE IF reply.rows = 0 THEN EmptyResult(skill, complete)
        ELSE IF skill.shape = "one" /\ reply.rows > 1 THEN bare("clarification_required")
        ELSE IF broken THEN bare("contract_error")
        ELSE [outcome |->
                IF skill.shape = "aggregate" /\ reply.zero THEN "zero_aggregate"
                ELSE IF HasMore(reply) /\ skill.truncation = "partial" THEN "partial"
                ELSE "success_with_rows",
              rows |-> OnPage(reply.rows),
              ids |-> IF skill.resolver THEN OnPage(reply.ids) ELSE 0,
              more |-> HasMore(reply), draft |-> HasMore(reply),
              scope |-> scope, reason |-> "none", whole |-> complete]

(* _apply_rank_source_state: the input of a rank offers no page and, read   *)
(* to its end, is the whole set.                                            *)
RankSourceState(r) ==
    IF r.whole /\ ~r.more /\ r.outcome \in {"success_with_rows", "success_empty"}
    THEN [r EXCEPT !.draft = FALSE, !.scope = "complete_set"]
    ELSE [r EXCEPT !.draft = FALSE]

(* _apply_resolver_state: what several, or not all, candidates mean. *)
ResolverState(r, mode) ==
    LET settled == IF mode \in {"select_one", "select_set"} /\ r.ids > 0 /\ ~r.more
                   THEN [r EXCEPT !.scope = "complete_set"] ELSE r
    IN  CASE mode = "select_one" /\ (r.ids > 1 \/ (r.ids > 0 /\ r.more)) ->
                [settled EXCEPT !.outcome = "clarification_required", !.draft = FALSE]
          [] /\ mode = "select_set" /\ r.ids > 0
             /\ (settled.scope # "complete_set" \/ r.ids > MaxMembers) ->
                [settled EXCEPT !.outcome = "partial"]
          [] OTHER -> settled

AppliedState(s, r) ==
    IF IsRankSource(plan, s) THEN RankSourceState(r)
    ELSE IF IsResolver(plan[s]) THEN ResolverState(r, Mode(plan, s))
    ELSE r

(* What ends the loop over the steps after result r of step s. *)
Stops(s, r) ==
    \/ s \in Required /\ r.outcome = "contract_error"
    \/ r.outcome = "clarification_required"
    \/ Mode(plan, s) = "select_set" /\ r.outcome = "partial"
    \/ /\ s \in Required
       /\ r.outcome \in {"success_empty", "documentation_empty"}
       /\ IsCall(plan[s]) /\ ~IsRankSource(plan, s) /\ plan[s].stop

Record(s, r) ==
    /\ result' = [result EXCEPT ![s] = r]
    /\ stopAll' = Stops(s, r)
    /\ UNCHANGED <<plan, blocked, status, report, resumed, answered>>

(***************************************************************************)
(* Actions                                                                 *)
(***************************************************************************)

BadBlock(s) ==
    /\ Running
    /\ IsNext(s)
    /\ StepDependencies(plan[s]) \cap FailedOrBlocked # {}
    /\ UNCHANGED vars

(* A step one of whose predecessors failed or was blocked does not run. *)
Block(s) ==
    /\ Running
    /\ IsNext(s)
    /\ StepDependencies(plan[s]) \cap FailedOrBlocked # {}
    /\ blocked' = blocked \cup {s}
    /\ UNCHANGED <<plan, result, stopAll, status, report, resumed, answered>>

(* _execute_skill for a query: bindings first, then the request. *)
Query(s) ==
    /\ Runnable(s)
    /\ IsCall(plan[s]) /\ Skill(s).source = "data"
    /\ BindingsResolve(s)
    /\ \E reply \in Replies :
          /\ ~Skill(s).resolver => reply.ids = 0
          /\ reply.zero => Skill(s).shape = "aggregate"
          /\ Record(s, AppliedState(s, DataResult(Skill(s), reply, IsRankSource(plan, s))))

(* _execute_skill for the help; without an active index it is an error. *)
Search(s) ==
    /\ Runnable(s)
    /\ IsCall(plan[s]) /\ Skill(s).source = "help"
    /\ BindingsResolve(s)
    /\ \/ \E rows \in 0 .. PageSize :
             Record(s, Made(IF rows = 0 THEN "documentation_empty" ELSE "documentation_found",
                            rows, 0, "visible_page"))
       \/ Record(s, Made("contract_error", 0, 0, "visible_page"))

(* A binding without its value is a failed step, never a request. *)
RefuseArguments(s) ==
    /\ Runnable(s)
    /\ IsCall(plan[s])
    /\ ~BindingsResolve(s)
    /\ Record(s, AppliedState(s, Made("contract_error", 0, 0, SkillScope(Skill(s)))))

NormalizePeriod(s) ==
    /\ Runnable(s)
    /\ plan[s].kind = "period"
    /\ Record(s, Made("success_with_rows", 1, 0, "complete_set"))

(* _execute_count over a whole set; distinct rows may be fewer. *)
Countable(source) == Ran(source) /\ result[source].scope = "complete_set" /\ ~result[source].more

Count(s) ==
    /\ Runnable(s)
    /\ plan[s].kind = "count"
    /\ Countable(plan[s].input)
    /\ Record(s, Made(IF result[plan[s].input].rows = 0 THEN "zero_aggregate"
                      ELSE "success_with_rows", 1, 0, result[plan[s].input].scope))

(* _execute_rank: its refusals are failed steps; a tie may widen it. *)
Rankable(source) ==
    /\ Ran(source)
    /\ result[source].scope = "complete_set" /\ ~result[source].more
    /\ result[source].whole /\ result[source].outcome # "partial"

(* _rank_candidates: one for each proven identity of the input. *)
RankCandidates(source) == 1 .. result[source].ids

(* _select_rank_candidates: as many as the limit, more where the boundary   *)
(* is tied; a selector has the limit one, and only ties widen it.          *)
Winners(s) ==
    {n \in RankCandidates(plan[s].input) : IsRankSelector(plan, s) /\ n > 1 => plan[s].ties}

Rank(s) ==
    /\ Runnable(s)
    /\ plan[s].kind = "rank"
    /\ LET source == plan[s].input
           ranked(outcome, n) == Made(outcome, n, n, "complete_set")
       IN  \/ /\ Rankable(source)
              /\ result[source].outcome = "success_empty"
              /\ Record(s, [ranked("success_empty", 0) EXCEPT !.reason = result[source].reason])
           \/ /\ Rankable(source)
              /\ result[source].outcome # "success_empty"
              /\ \E winners \in Winners(s) :
                    Record(s, ranked(IF IsRankSelector(plan, s) /\ winners > 1
                                     THEN "clarification_required" ELSE "success_with_rows",
                                     winners))
           \/ Record(s, ranked("contract_error", 0))

(* The errors that no step catches end the run: resolver uses that        *)
(* disagree, a count over a page, an operator nobody implements, a period  *)
(* that does not resolve.                                                  *)
Raise ==
    /\ status = "running"
    /\ \/ ~UsesAgree(plan)
       \/ \E s \in Steps :
             /\ Runnable(s)
             /\ \/ plan[s].kind \in {"calculate", "period"}
                \/ plan[s].kind = "count" /\ ~Countable(plan[s].input)
    /\ status' = "raised"
    /\ UNCHANGED <<run, report>>

(***************************************************************************)
(* What the run amounts to                                                 *)
(***************************************************************************)

(* The results that decide: those of required steps, and of the resumed    *)
(* one, whose criticality is never set.                                    *)
Counted == {s \in Steps : Ran(s) /\ s \in Required \cup {resumed}}

RequiredFinals == Finals(plan, "required")

Produced == {s \in RequiredFinals : result[s].rows > 0}

OutcomesOf(steps) == {result[s].outcome : s \in steps}

BadCombined(steps, hasFacts) ==
    LET outcomes == OutcomesOf(steps)
        ranking == <<"contract_error", "zero_aggregate", "success_with_rows", "partial",
                     "success_empty">>
        present == {i \in DOMAIN ranking : ranking[i] \in outcomes}
    IN  IF present # {} THEN ranking[Min(present)] ELSE "contract_error"

(* combine_step_outcomes *)
Combined(steps, hasFacts) ==
    LET outcomes == OutcomesOf(steps)
        failed == {s \in steps : result[s].outcome \in Failures}
        ranking == <<"partial", "zero_aggregate", "success_with_rows", "success_empty">>
        present == {i \in DOMAIN ranking : ranking[i] \in outcomes}
    IN  IF "contract_error" \in outcomes THEN "contract_error"
        ELSE IF failed # {} THEN IF hasFacts THEN "partial" ELSE result[Min(failed)].outcome
        ELSE IF present # {} THEN ranking[Min(present)] ELSE "contract_error"

IsDocumentation == \A s \in Steps : IsCall(plan[s]) => Skill(s).source = "help"

(* _overall_outcome; without any final fact the first failed or empty      *)
(* required step in plan order decides.                                    *)
OverallOutcome ==
    LET outcomes == OutcomesOf(Counted)
        decisive == {s \in Counted : result[s].outcome \in
                        Failures \cup {"success_empty", "documentation_empty"}}
    IN  IF "contract_error" \in outcomes THEN "contract_error"
        ELSE IF "clarification_required" \in outcomes THEN "clarification_required"
        ELSE IF IsDocumentation
             THEN IF \E s \in Counted : result[s].rows > 0
                  THEN "documentation_found" ELSE "documentation_empty"
        ELSE IF RequiredFinals \subseteq Produced THEN Combined(Counted, TRUE)
        ELSE IF Produced # {} THEN "partial"
        ELSE IF decisive # {}
             THEN IF result[Min(decisive)].outcome \in Failures
                  THEN result[Min(decisive)].outcome ELSE "success_empty"
        ELSE Combined(Counted, FALSE)

(* _runtime_requirement_covered and collection_obligation_satisfied *)
Covered(s) ==
    Ran(s) /\ (IF plan[s].wants = "one" THEN result[s].rows = 1 ELSE result[s].rows > 0)

ObligationMet(s) ==
    CASE StepObligation(plan[s]) = "fact" -> TRUE
      [] StepObligation(plan[s]) = "visible_page" -> result[s].outcome \notin Failures
      [] OTHER ->
            \A t \in ReverseClosure(plan, {s}) : StepObligation(plan[t]) # "fact" =>
                /\ Ran(t)
                /\ result[t].scope = "complete_set" /\ ~result[t].more
                /\ result[t].outcome \notin Failures \cup {"partial"}

Sufficient == \A s \in RequiredFinals : Covered(s) /\ ObligationMet(s)

(* _finalize_coverage_outcome *)
FinalOutcome ==
    IF /\ ~Sufficient
       /\ \E s \in Steps : Ran(s) /\ result[s].rows > 0
       /\ OverallOutcome \in {"success_with_rows", "zero_aggregate", "documentation_found"}
    THEN "partial" ELSE OverallOutcome

BadSettled(s) ==
    /\ Ran(s)
    /\ IsResolver(plan[s]) /\ ~IsRankSource(plan, s)
    /\ Mode(plan, s) \in {"select_one", "select_set"}
    /\ result[s].ids > 0 /\ ~result[s].more

(* _rank_selection_proof: a rank settles on the one it put first. *)
SettledRank(s) ==
    /\ IsRankSelector(plan, s) /\ plan[s].input \in Required
    /\ result[s].outcome = "success_with_rows" /\ result[s].ids = 1

(* _selection_proofs: a resolver settles on one object, or on a whole set. *)
SettledResolver(s) ==
    /\ IsResolver(plan[s]) /\ ~IsRankSource(plan, s)
    /\ \/ /\ Mode(plan, s) = "select_one"
          /\ result[s].ids = 1 /\ ~result[s].more
       \/ /\ Mode(plan, s) = "select_set"
          /\ result[s].ids \in 1 .. MaxMembers
          /\ result[s].scope = "complete_set" /\ ~result[s].more

Settled(s) ==
    /\ Ran(s)
    /\ IF plan[s].kind = "rank" THEN SettledRank(s) ELSE SettledResolver(s)

(* _context_commit_allowed *)
Exports ==
    IF \/ FinalOutcome = "contract_error"
       \/ \E s \in Counted : result[s].outcome \in Failures
    THEN {} ELSE {s \in Required : Settled(s)}

(* The step whose fact an export carries: a rank shares its input's. *)
Producer(s) == IF plan[s].kind = "rank" THEN plan[s].input ELSE s

(* _pending_from_resolver: the first ambiguous resolver, else the input of *)
(* a tied rank; 0: none.                                                   *)
Ambiguous ==
    {s \in Steps : Mode(plan, s) = "select_one" /\ result[s].outcome = "clarification_required"}

Tied == {s \in Steps : IsRankSelector(plan, s) /\ result[s].outcome = "clarification_required"}

Asked == IF Ambiguous # {} THEN Min(Ambiguous)
         ELSE IF Tied # {} THEN plan[Min(Tied)].input ELSE 0

(* Too many candidates, or not all of them, cannot be listed. *)
MustNarrow ==
    \E s \in IF Ambiguous # {} THEN {Asked} ELSE Tied :
        result[s].more \/ result[s].ids > MaxChoices

Drafts == IF Asked # 0 THEN {} ELSE {s \in Steps : result[s].draft}

(* _evidence_pagination: the last paged query, unless a resolver asks. *)
PageShown ==
    LET paged == {s \in Steps : Ran(s) /\ IsCall(plan[s]) /\ Skill(s).source = "data"
                                 /\ Skill(s).paged}
    IN  IF paged = {} \/ Ambiguous # {} THEN 0 ELSE Max(paged)

EmptyReasons == {result[s].reason : s \in Counted} \ {"none"}

(* _empty_reason_for_outcome: no reason, or two that conflict. *)
ReasonUnclear == OverallOutcome = "success_empty" /\ Cardinality(EmptyReasons) # 1

(* The page the evidence shows and the list that goes on are not the same. *)
PageMismatch == (Drafts # {}) # (PageShown # 0 /\ result[PageShown].more)

(* evidence_issues: an empty answer with rows of a step that exports nothing. *)
EmptyWithRows ==
    /\ FinalOutcome = "success_empty"
    /\ \E s \in Steps \ {Producer(e) : e \in Exports} :
          result[s].rows > 0 \/ result[s].outcome = "clarification_required"

BadUnpublishable == ReasonUnclear \/ PageMismatch

(* The checks after the loop (execute and chat.py: _complete_execution) that *)
(* raise instead of answering.                                               *)
Unpublishable ==
    ReasonUnclear \/ PageMismatch \/ EmptyWithRows \/ Cardinality(Drafts) > 1

(* The whole end of execute and of _complete_execution; labels that render *)
(* alike also ask for a narrower criterion.                                *)
Conclude ==
    /\ Running
    /\ Candidates = {}
    /\ IF Unpublishable
       THEN status' = "raised" /\ UNCHANGED report
       ELSE /\ status' = IF Asked # 0 THEN "asked" ELSE "answered"
            /\ \E narrow \in BOOLEAN :
                  /\ Asked = 0 => ~narrow
                  /\ Asked # 0 /\ MustNarrow => narrow
                  /\ report' = [outcome |-> FinalOutcome, exports |-> Exports,
                                question |-> Asked, narrow |-> narrow,
                                page |-> IF Drafts # {} THEN Min(Drafts) ELSE 0]
    /\ UNCHANGED run

BadRestart(step) ==
    /\ result' = [s \in Steps |-> IF s = step THEN Resumed ELSE NotRun]
    /\ blocked' = {}
    /\ stopAll' = FALSE
    /\ status' = "running"
    /\ report' = NoReport
    /\ resumed' = step
    /\ UNCHANGED <<plan, answered>>

(* The answer to a question runs the stored plan again: everything that ran *)
(* is forgotten but the step the user has just chosen for.                  *)
Restart(step) ==
    /\ result' = [s \in Steps |-> IF s = step THEN Resumed ELSE NotRun]
    /\ blocked' = {}
    /\ stopAll' = FALSE
    /\ status' = "running"
    /\ report' = NoReport
    /\ resumed' = step
    /\ answered' = IF step = 0 THEN answered ELSE Append(answered, step)
    /\ UNCHANGED plan

Choose ==
    /\ status = "asked" /\ ~report.narrow
    /\ Len(answered) < MaxRounds
    /\ Restart(report.question)

(* _narrow_resolver_plan puts the user's text into the resolver's argument; *)
(* the plan keeps its shape.  It fails where there is no such argument, or  *)
(* more than one.                                                           *)
Narrow ==
    /\ status = "asked" /\ report.narrow
    /\ \/ Restart(0)
       \/ status' = "raised" /\ UNCHANGED <<run, report>>

(***************************************************************************)
(* The specification                                                       *)
(***************************************************************************)
Init ==
    /\ plan \in Plans
    /\ result = [s \in Steps |-> NotRun]
    /\ blocked = {}
    /\ stopAll = FALSE
    /\ status = "running"
    /\ report = NoReport
    /\ resumed = 0
    /\ answered = <<>>

Step(s) ==
    \/ Block(s) \/ Query(s) \/ Search(s) \/ RefuseArguments(s)
    \/ NormalizePeriod(s) \/ Count(s) \/ Rank(s)

Execute == (\E s \in Steps : Step(s)) \/ Raise \/ Conclude

Next == Execute \/ Choose \/ Narrow

(* The executor is one coroutine: while it has a step it takes it. *)
Spec == Init /\ [][Next]_vars /\ WF_vars(Execute)

(***************************************************************************)
(* Properties                                                              *)
(***************************************************************************)

(* The variables have their types, and the resumed step is the last one the *)
(* user has chosen for.                                                     *)
TypeOK ==
    /\ plan \in Plans
    /\ result \in [Steps -> Results]
    /\ blocked \subseteq Steps
    /\ stopAll \in BOOLEAN
    /\ status \in {"running", "asked", "answered", "raised"}
    /\ report \in Reports
    /\ resumed \in Steps \cup {0}
    /\ answered \in Seq(Steps)
    /\ resumed # 0 => answered # <<>> /\ answered[Len(answered)] = resumed

(* A step that ran found every step it reads already run, not failed and not *)
(* blocked, whatever the order of phases and the failures before it (the     *)
(* scheduling loop of execute checks only that none of them failed).         *)
RunsAfterInputs ==
    \A s \in Steps : Ran(s) /\ s # resumed =>
        \A t \in StepDependencies(plan[s]) : Ran(t) /\ t \notin FailedOrBlocked

(* A run that nothing stopped leaves a required step out only if a step it   *)
(* needs failed or ranked nothing: a failure spares independent branches.    *)
OnlyFailuresBlock ==
    status \in {"asked", "answered"} /\ ~stopAll =>
        \A s \in Required : ~Ran(s) =>
            \E t \in ReverseClosure(plan, {s}) \ {s} : t \in FailedOrBlocked \ blocked

(* An answer said to be full rests on no required step that failed, stayed   *)
(* partial or still asks, and leaves a required step out only where the user *)
(* has chosen the object that step would help to find (_overall_outcome and  *)
(* _finalize_coverage_outcome decide from different facts).                  *)
FullAnswerIsFull ==
    report.outcome \in {"success_with_rows", "zero_aggregate"} =>
        \A s \in Required :
            /\ result[s].outcome \notin Failures \cup {"partial", "clarification_required"}
            /\ Ran(s) \/ (resumed # 0 /\ s \in ReverseClosure(plan, {resumed}) \ {resumed})

(* The context never receives the object a question is open about, nor an    *)
(* object of a run whose required steps failed (_selection_proofs and        *)
(* _pending_from_resolver read the same results separately).                 *)
OnlySettledExported ==
    /\ report.question \notin {Producer(e) : e \in report.exports}
    /\ report.exports # {} => \A s \in Required : result[s].outcome \notin Failures

(* A list that has more to show is the one the answer continues: no answer   *)
(* silently drops the rest of another (execute raises on two drafts and      *)
(* _complete_execution on a page without a draft).                           *)
NoListCutShort ==
    status = "answered" => \A s \in Steps : result[s].draft => report.page = s

(* The run of a plan ends: with an answer, a question or an error. *)
RunEnds == status = "running" ~> status # "running"

(* A resolver the user has chosen for is not asked about again. *)
NeverAsksAgain == report.question \notin Range(answered)
=============================================================================
