------------------------- MODULE PlanExecutorProofs -------------------------

(***************************************************************************)
(* For every set of accepted plans, page size and policy: a step runs only *)
(* after everything it reads.  The loop of execute checks that no          *)
(* predecessor failed; that every predecessor also ran follows from the    *)
(* order of the plan and from the closure of the required steps.           *)
(*                                                                         *)
(* What a run amounts to is computed once, at its end, from its results.   *)
(* The invariants say what each result may claim (Proper), that a rank     *)
(* read its whole input, and that a step left out has a failure among its  *)
(* predecessors (RootInv); the theorems about reports, exports, questions  *)
(* and page handles follow from them at the step that publishes.           *)
(***************************************************************************)
EXTENDS PlanExecutor, FiniteSetTheorems, TLAPS

(* With a step the reverse closure holds its predecessors, because every   *)
(* closed superset of the roots does.                                      *)
LEMMA ClosureHolds ==
    ASSUME NEW p, NEW roots, NEW s \in ReverseClosure(p, roots),
           NEW t \in StepDependencies(p[s]) \cap Positions(p)
    PROVE  t \in ReverseClosure(p, roots)
BY DEF ReverseClosure

(* The predecessors of a step of an accepted plan are earlier steps. *)
LEMMA EarlierInputs ==
    ASSUME NEW p \in Plans, NEW s \in Positions(p), NEW t \in StepDependencies(p[s])
    PROVE  /\ s \in Nat /\ t \in Nat /\ t < s /\ t \in Positions(p)
<1>1. Len(p) \in Nat /\ DOMAIN p = 1 .. Len(p) /\ PlanAccepted(p)
    BY ExecutorAssumption DEF ExecutorAssumption
<1>2. StepDependencies(p[s]) \subseteq 1 .. (s - 1) BY <1>1 DEF PlanAccepted
<1>3. s \in 1 .. Len(p) BY <1>1 DEF Positions
<1> QED BY <1>1, <1>2, <1>3 DEF Positions

(* The state a step is decided in: one result per step of an accepted plan. *)
Shape == plan \in Plans /\ result = [s \in Steps |-> result[s]]

IInv == Shape /\ RunsAfterInputs

(* When a step may run, everything it reads has run and did not fail. *)
LEMMA InputsRan ==
    ASSUME Shape, NEW s \in Steps, Runnable(s), NEW t \in StepDependencies(plan[s])
    PROVE  Ran(t) /\ t \notin FailedOrBlocked /\ t # s
<1>1. s \in Nat /\ t \in Nat /\ t < s /\ t \in Steps BY EarlierInputs DEF Shape, Steps
<1>2. t \notin FailedOrBlocked BY DEF Runnable
<1>3. t \notin blocked BY <1>2 DEF FailedOrBlocked
<1>4. s \in Candidates /\ t \notin Candidates
    <2>1. s \in Candidates /\ \A u \in Candidates : s <= u BY DEF Runnable, IsNext
    <2> QED BY <2>1, <1>1
<1>5. s \in Required => t \in Required
    BY ClosureHolds, <1>1 DEF Required, RequiredSteps, Steps
<1>6. ~Open(t)
    <2>1. ~stopAll BY <1>4 DEF Candidates
    <2>2. CASE \E u \in Required : Open(u)
        <3>1. Candidates = {u \in Required : Open(u)} BY <2>1, <2>2 DEF Candidates
        <3> QED BY <3>1, <1>4, <1>5
    <2>3. CASE ~ \E u \in Required : Open(u)
        <3>1. Candidates = {u \in Steps : Open(u)} BY <2>1, <2>3, <1>4 DEF Candidates
        <3> QED BY <3>1, <1>4, <1>1
    <2> QED BY <2>2, <2>3
<1> QED BY <1>1, <1>2, <1>3, <1>6 DEF Open

(* A step that is next has not run. *)
LEMMA NextIsOpen ==
    ASSUME NEW s, IsNext(s)
    PROVE  ~Ran(s)
BY DEF IsNext, Candidates, Open

(* Recording the result of a runnable step keeps the invariant. *)
LEMMA RecordKeeps ==
    ASSUME IInv, NEW s \in Steps, Runnable(s), NEW r, Record(s, r)
    PROVE  IInv'
<1>1. plan' = plan /\ blocked' = blocked /\ resumed' = resumed BY DEF Record
<1>2. result' = [result EXCEPT ![s] = r] BY DEF Record
<1>3. Shape BY DEF IInv
<1>4. \A u \in Steps : u # s => result'[u] = result[u] BY <1>2, <1>3 DEF Shape
<1>5. Shape' BY <1>1, <1>2, <1>3 DEF Shape, Steps
<1>6. ~Ran(s) BY NextIsOpen DEF Runnable
<1>7. Steps' = Steps BY <1>1 DEF Steps
<1>8. ASSUME NEW u \in Steps, Ran(u)', u # resumed, NEW t \in StepDependencies(plan[u])
      PROVE  Ran(t)' /\ t \notin FailedOrBlocked'
    <2>1. t \in Steps BY <1>3, EarlierInputs DEF Shape, Steps
    <2>2. Ran(t) /\ t \notin FailedOrBlocked /\ t # s
        <3>1. CASE u = s BY <3>1, InputsRan, <1>3
        <3>2. CASE u # s
            <4>1. Ran(u) BY <3>2, <1>4, <1>8 DEF Ran
            <4>2. Ran(t) /\ t \notin FailedOrBlocked
                BY <4>1, <1>8 DEF IInv, RunsAfterInputs
            <4> QED BY <4>2, <1>6
        <3> QED BY <3>1, <3>2
    <2>3. result'[t] = result[t] BY <2>1, <2>2, <1>4
    <2>4. Ran(t)' BY <2>2, <2>3 DEF Ran
    <2>5. t \notin FailedOrBlocked'
        BY <2>2, <2>3, <1>1, <1>7 DEF FailedOrBlocked
    <2> QED BY <2>4, <2>5
<1> QED BY <1>5, <1>8, <1>7, <1>1 DEF IInv, RunsAfterInputs

(* Blocking a step that is next keeps the invariant. *)
LEMMA BlockKeeps ==
    ASSUME IInv, NEW s \in Steps, Block(s)
    PROVE  IInv'
<1>1. /\ plan' = plan /\ result' = result /\ resumed' = resumed
      /\ blocked' = blocked \cup {s}
    BY DEF Block
<1>2. ~Ran(s) BY NextIsOpen DEF Block
<1>3. FailedOrBlocked' = FailedOrBlocked \cup {s} BY <1>1 DEF FailedOrBlocked, Steps
<1> QED BY <1>1, <1>2, <1>3 DEF IInv, Shape, Steps, RunsAfterInputs, Ran

(* A restart leaves only the resumed step run. *)
LEMMA RestartKeeps ==
    ASSUME IInv, NEW step, Restart(step)
    PROVE  IInv'
<1>1. /\ plan' = plan /\ resumed' = step
      /\ result' = [s \in Steps |-> IF s = step THEN Resumed ELSE NotRun]
    BY DEF Restart
<1>2. Steps' = Steps BY <1>1 DEF Steps
<1>3. Shape' BY <1>1, <1>2 DEF IInv, Shape
<1>4. \A s \in Steps : Ran(s)' => s = resumed' BY <1>1 DEF Ran, NotRun, Made
<1> QED BY <1>2, <1>3, <1>4 DEF IInv, RunsAfterInputs

LEMMA StepKeeps ==
    ASSUME IInv, NEW s \in Steps, Step(s)
    PROVE  IInv'
<1>1. CASE Block(s) BY <1>1, BlockKeeps
<1>2. CASE Query(s)
    <2>1. Runnable(s) BY <1>2 DEF Query
    <2>2. PICK r : Record(s, r) BY <1>2 DEF Query
    <2> QED BY <2>1, <2>2, RecordKeeps
<1>3. CASE Search(s)
    <2>1. Runnable(s) BY <1>3 DEF Search
    <2>2. PICK r : Record(s, r) BY <1>3 DEF Search
    <2> QED BY <2>1, <2>2, RecordKeeps
<1>4. CASE RefuseArguments(s) BY <1>4, RecordKeeps DEF RefuseArguments
<1>5. CASE NormalizePeriod(s) BY <1>5, RecordKeeps DEF NormalizePeriod
<1>6. CASE Count(s) BY <1>6, RecordKeeps DEF Count
<1>7. CASE Rank(s)
    <2>1. Runnable(s) BY <1>7 DEF Rank
    <2>2. PICK r : Record(s, r) BY <1>7 DEF Rank
    <2> QED BY <2>1, <2>2, RecordKeeps
<1> QED BY <1>1, <1>2, <1>3, <1>4, <1>5, <1>6, <1>7 DEF Step

LEMMA NextKeeps == IInv /\ [Next]_vars => IInv'
<1> SUFFICES ASSUME IInv, [Next]_vars PROVE IInv'
    OBVIOUS
<1>1. ASSUME NEW s \in Steps, Step(s) PROVE IInv' BY <1>1, StepKeeps
<1>2. CASE UNCHANGED <<plan, result, blocked, resumed>>
    BY <1>2 DEF IInv, Shape, Steps, RunsAfterInputs, Ran, FailedOrBlocked
<1>3. CASE Raise BY <1>3, <1>2 DEF Raise, run
<1>4. CASE Conclude BY <1>4, <1>2 DEF Conclude, run
<1>5. CASE Choose BY <1>5, RestartKeeps DEF Choose
<1>6. CASE Narrow
    <2>1. CASE Restart(0) BY <2>1, RestartKeeps
    <2>2. CASE UNCHANGED run BY <2>2, <1>2 DEF run
    <2> QED BY <1>6, <2>1, <2>2 DEF Narrow
<1>7. CASE UNCHANGED vars BY <1>7, <1>2 DEF vars
<1> QED BY <1>1, <1>3, <1>4, <1>5, <1>6, <1>7 DEF Next, Execute

LEMMA OrderInvariant == Spec => []IInv
<1>1. Init => IInv
    BY DEF Init, IInv, Shape, Steps, RunsAfterInputs, Ran, NotRun, Made
<1> QED BY <1>1, NextKeeps, PTL DEF Spec

(* Whatever the replies of 1C, the failures and the answers to questions:  *)
(* a step that ran found everything it reads run, not failed, not blocked  *)
(* (PlanExecutor.execute).                                                 *)
THEOREM StepsRunAfterInputs == Spec => []RunsAfterInputs
<1>1. IInv => RunsAfterInputs BY DEF IInv
<1> QED BY <1>1, OrderInvariant, PTL

(***************************************************************************)
(* What a result says of itself                                            *)
(***************************************************************************)

(* A step of an accepted plan is typed and its position is a positive       *)
(* number; the input of a rank or a count is an earlier step.              *)
LEMMA PlanTyped ==
    ASSUME NEW p \in Plans, NEW s \in Positions(p)
    PROVE  /\ p[s] \in PlanSteps
           /\ s \in Nat \ {0}
           /\ p[s].kind \in {"count", "rank"} => p[s].input \in Positions(p) /\ p[s].input < s
<1>1. p[s] \in PlanSteps /\ Len(p) \in Nat /\ DOMAIN p = 1 .. Len(p)
    BY ExecutorAssumption DEF ExecutorAssumption
<1>2. s \in Nat \ {0} BY <1>1 DEF Positions
<1>3. ASSUME p[s].kind \in {"count", "rank"}
      PROVE  p[s].input \in Positions(p) /\ p[s].input < s
    <2>1. p[s].input \in StepDependencies(p[s])
        BY <1>1, <1>3 DEF PlanSteps, StepDependencies
    <2> QED BY <2>1, EarlierInputs
<1> QED BY <1>1, <1>2, <1>3

(* What every result has besides its type: facts where it claims success,   *)
(* and a call that asks which object was meant has not exactly one.        *)
Proper(step, r) ==
    /\ r \in Results
    /\ r.outcome = "not_run" => r.rows = 0 /\ ~r.draft /\ ~r.whole
    /\ r.outcome \in {"success_with_rows", "zero_aggregate"} => r.rows > 0
    /\ IsCall(step) /\ r.outcome = "clarification_required" =>
          ~r.whole /\ (r.ids # 1 \/ r.more)

LEMMA MadeTyped ==
    ASSUME NEW outcome \in StepOutcomes \cup {"not_run"}, NEW rows \in Nat, NEW ids \in Nat,
           NEW scope \in {"visible_page", "complete_set"}
    PROVE  /\ Made(outcome, rows, ids, scope) \in Results
           /\ Made(outcome, rows, ids, scope).outcome = outcome
           /\ Made(outcome, rows, ids, scope).rows = rows
           /\ Made(outcome, rows, ids, scope).ids = ids
           /\ Made(outcome, rows, ids, scope).scope = scope
           /\ ~Made(outcome, rows, ids, scope).whole
           /\ ~Made(outcome, rows, ids, scope).draft
           /\ ~Made(outcome, rows, ids, scope).more
BY DEF Made, Results

LEMMA ScopeTyped ==
    \A skill : SkillScope(skill) \in {"visible_page", "complete_set"}
BY DEF SkillScope

(* A result made of nothing but its counts is proper if it is no call that  *)
(* asks about one candidate.                                               *)
LEMMA MadeProper ==
    ASSUME NEW step, NEW outcome \in StepOutcomes, NEW rows \in Nat, NEW ids \in Nat,
           NEW scope \in {"visible_page", "complete_set"},
           outcome \in {"success_with_rows", "zero_aggregate"} => rows > 0,
           outcome = "clarification_required" => ~IsCall(step) \/ ids # 1
    PROVE  Proper(step, Made(outcome, rows, ids, scope))
<1>1. outcome # "not_run" BY DEF StepOutcomes
<1> QED BY <1>1, MadeTyped DEF Proper

(* _execute_data: rows make a success, a question comes without candidates, *)
(* and only the input of a rank is read as a whole.                        *)
LEMMA DataResultProper ==
    ASSUME NEW skill \in Skills, NEW reply \in Replies, NEW rankInput \in BOOLEAN
    PROVE  LET r == DataResult(skill, reply, rankInput)
           IN  /\ r \in Results /\ r.outcome # "not_run"
               /\ r.outcome \in {"success_with_rows", "zero_aggregate"} => r.rows > 0
               /\ r.outcome = "clarification_required" => ~r.whole /\ r.ids = 0
               /\ ~rankInput => ~r.whole
<1> DEFINE r == DataResult(skill, reply, rankInput)
           scope == SkillScope(skill)
           complete == rankInput /\ ~HasMore(reply)
           bare(outcome) == Made(outcome, 0, 0, scope)
<1>0. scope \in {"visible_page", "complete_set"} BY ScopeTyped
<1>1. \A outcome \in StepOutcomes \ {"success_with_rows", "zero_aggregate"} :
        /\ bare(outcome) \in Results /\ bare(outcome).outcome = outcome
        /\ ~bare(outcome).whole /\ bare(outcome).ids = 0 /\ bare(outcome).outcome # "not_run"
    BY <1>0, MadeTyped DEF StepOutcomes
<1>2. CASE reply.kind # "rows"
    <2>1. reply.kind \in {"unavailable", "error", "violation"}
        BY <1>2 DEF Replies, Unusable, Usable
    <2>2. r = bare(Refusal[reply.kind]) BY <1>2 DEF DataResult
    <2>3. Refusal[reply.kind] \in {"mcp_unavailable", "query_error", "contract_error"}
        BY <2>1 DEF Refusal
    <2> QED BY <1>1, <2>2, <2>3 DEF StepOutcomes
<1>3. CASE reply.kind = "rows"
    <2>1. /\ reply.rows \in Nat /\ reply.more \in BOOLEAN /\ reply.ids \in Nat
          /\ reply.zero \in BOOLEAN
        <3>1. reply \in Usable BY <1>3 DEF Replies, Unusable
        <3>2. reply \in [kind: {"rows"}, rows: 0 .. (PageSize + 1), more: BOOLEAN,
                         ids: 0 .. PageSize, zero: BOOLEAN]
            BY <3>1 DEF Usable
        <3>3. PageSize \in Nat BY ExecutorAssumption DEF ExecutorAssumption
        <3> QED BY <3>2, <3>3
    <2>2. PageSize \in Nat \ {0} BY ExecutorAssumption DEF ExecutorAssumption
    <2>3. HasMore(reply) \in BOOLEAN BY <2>1, <2>2 DEF HasMore
    <2>4. CASE reply.rows = 0
        <3>1. r = EmptyResult(skill, complete) BY <1>3, <2>4 DEF DataResult
        <3>2. CASE skill.empty = "forbidden"
            <4>1. r = bare("contract_error") BY <3>1, <3>2 DEF EmptyResult
            <4> QED BY <1>1, <4>1 DEF StepOutcomes
        <3>3. CASE skill.empty # "forbidden"
            <4>1. r = [bare("success_empty") EXCEPT !.reason = skill.empty, !.whole = complete]
                BY <3>1, <3>3 DEF EmptyResult
            <4>2. skill.empty \in {"not_found", "no_rows"} BY <3>3 DEF Skills
            <4>3. complete \in BOOLEAN /\ (~rankInput => ~complete) BY <2>3
            <4>4. bare("success_empty") \in Results /\ bare("success_empty").outcome = "success_empty"
                BY <1>1 DEF StepOutcomes
            <4> HIDE DEF bare, complete
            <4>5. r \in Results /\ r.outcome = "success_empty" /\ r.whole = complete
                BY <4>1, <4>2, <4>3, <4>4 DEF Results
            <4> QED BY <4>3, <4>5
        <3> QED BY <3>2, <3>3
    <2>5. CASE reply.rows # 0 /\ skill.shape = "one" /\ reply.rows > 1
        <3>1. r = bare("clarification_required") BY <1>3, <2>5 DEF DataResult
        <3> QED BY <1>1, <3>1 DEF StepOutcomes
    <2>6. CASE reply.rows # 0 /\ ~(skill.shape = "one" /\ reply.rows > 1)
        <3> DEFINE broken ==
                \/ skill.shape = "aggregate" /\ reply.rows # 1
                \/ HasMore(reply) /\ (~skill.paged \/ skill.truncation = "error")
        <3>1. CASE broken
            <4>1. r = bare("contract_error") BY <1>3, <2>6, <3>1 DEF DataResult
            <4> QED BY <1>1, <4>1 DEF StepOutcomes
        <3>2. CASE ~broken
            <4>1. r = [outcome |->
                        IF skill.shape = "aggregate" /\ reply.zero THEN "zero_aggregate"
                        ELSE IF HasMore(reply) /\ skill.truncation = "partial" THEN "partial"
                        ELSE "success_with_rows",
                       rows |-> OnPage(reply.rows),
                       ids |-> IF skill.resolver THEN OnPage(reply.ids) ELSE 0,
                       more |-> HasMore(reply), draft |-> HasMore(reply),
                       scope |-> scope, reason |-> "none", whole |-> complete]
                BY <1>3, <2>6, <3>2 DEF DataResult
            <4>2. OnPage(reply.rows) \in Nat /\ OnPage(reply.rows) > 0 /\ OnPage(reply.ids) \in Nat
                BY <2>1, <2>2, <2>6 DEF OnPage
            <4>3. complete \in BOOLEAN /\ (~rankInput => ~complete) BY <2>3
            <4>4. r.outcome \in {"zero_aggregate", "partial", "success_with_rows"} BY <4>1
            <4>5. r.rows > 0 /\ r.whole = complete BY <4>1, <4>2
            <4> HIDE DEF complete, scope
            <4>6. r \in Results BY <1>0, <2>3, <4>1, <4>2, <4>3 DEF Results, StepOutcomes
            <4> HIDE DEF r
            <4> QED BY <4>3, <4>4, <4>5, <4>6 DEF r
        <3> QED BY <3>1, <3>2
    <2> QED BY <2>4, <2>5, <2>6
<1> QED BY <1>2, <1>3
(* What the uses of a resolver make of its result is proper too: it asks    *)
(* only with several candidates or with more to come.                      *)
LEMMA AppliedProper ==
    ASSUME plan \in Plans, NEW s \in Steps, NEW r \in Results, r.outcome # "not_run",
           r.outcome \in {"success_with_rows", "zero_aggregate"} => r.rows > 0,
           r.outcome = "clarification_required" => ~r.whole /\ r.ids = 0,
           ~IsRankSource(plan, s) => ~r.whole
    PROVE  Proper(plan[s], AppliedState(s, r))
<1>1. r.ids \in Nat /\ r.more \in BOOLEAN BY DEF Results
<1>2. Proper(plan[s], r) BY <1>1 DEF Proper
<1>3. CASE IsRankSource(plan, s)
    <2>1. AppliedState(s, r) = RankSourceState(r) BY <1>3 DEF AppliedState
    <2>2. PICK scope \in {"visible_page", "complete_set"} :
            AppliedState(s, r) = [r EXCEPT !.draft = FALSE, !.scope = scope]
        BY <2>1 DEF RankSourceState, Results
    <2> QED BY <1>2, <2>2 DEF Proper, Results
<1>4. CASE ~IsRankSource(plan, s) /\ IsResolver(plan[s])
    <2> DEFINE mode == Mode(plan, s)
               settled == IF mode \in {"select_one", "select_set"} /\ r.ids > 0 /\ ~r.more
                          THEN [r EXCEPT !.scope = "complete_set"] ELSE r
    <2>1. AppliedState(s, r) = ResolverState(r, mode) BY <1>4 DEF AppliedState
    <2>2. PICK scope \in {"visible_page", "complete_set"} : settled = [r EXCEPT !.scope = scope]
        BY DEF Results
    <2>3. /\ settled \in Results /\ settled.outcome = r.outcome /\ settled.rows = r.rows
          /\ settled.ids = r.ids /\ settled.more = r.more /\ settled.whole = r.whole
        BY <2>2 DEF Results
    <2>4. Proper(plan[s], settled) BY <1>2, <2>3 DEF Proper
    <2>5. CASE mode = "select_one" /\ (r.ids > 1 \/ (r.ids > 0 /\ r.more))
        <3>1. AppliedState(s, r)
                = [settled EXCEPT !.outcome = "clarification_required", !.draft = FALSE]
            BY <2>1, <2>5 DEF ResolverState
        <3>2. r.ids # 1 \/ r.more BY <1>1, <2>5
        <3> HIDE DEF settled
        <3> QED BY <1>4, <2>3, <3>1, <3>2 DEF Proper, Results, StepOutcomes
    <2>6. CASE /\ mode = "select_set" /\ r.ids > 0
               /\ settled.scope # "complete_set" \/ r.ids > MaxMembers
        <3>1. AppliedState(s, r) = [settled EXCEPT !.outcome = "partial"]
            BY <2>1, <2>6 DEF ResolverState
        <3> HIDE DEF settled
        <3> QED BY <2>3, <3>1 DEF Proper, Results, StepOutcomes
    <2>7. CASE /\ ~(mode = "select_one" /\ (r.ids > 1 \/ (r.ids > 0 /\ r.more)))
               /\ ~(/\ mode = "select_set" /\ r.ids > 0
                    /\ settled.scope # "complete_set" \/ r.ids > MaxMembers)
        <3>1. AppliedState(s, r) = settled BY <2>1, <2>7 DEF ResolverState
        <3> QED BY <2>4, <3>1
    <2> QED BY <2>5, <2>6, <2>7
<1>5. CASE ~IsRankSource(plan, s) /\ ~IsResolver(plan[s])
    BY <1>2, <1>5 DEF AppliedState
<1> QED BY <1>3, <1>4, <1>5

(* The least of some naturals is one of them. *)
LEMMA MinIn ==
    ASSUME NEW S \in SUBSET Nat, S # {}
    PROVE  Min(S) \in S /\ \A x \in S : Min(S) <= x
<1> DEFINE less == {pair \in Nat \X Nat : pair[1] < pair[2]}
<1>1. IsWellFoundedOn(less, Nat) BY NatLessThanWellFounded DEF OpToRel
<1> HIDE DEF less
<1>2. \E x \in S : \A y \in S : ~(<<y, x>> \in less) BY <1>1, WFMin
<1>3. \A x, y \in Nat : y < x => <<y, x>> \in less BY DEF less
<1>4. PICK x \in S : \A y \in S : ~(<<y, x>> \in less) BY <1>2
<1>5. ASSUME NEW y \in S PROVE x <= y
    <2>1. x \in Nat /\ y \in Nat OBVIOUS
    <2>2. ~(y < x) BY <1>3, <1>4, <2>1
    <2> QED BY <2>1, <2>2
<1> QED BY <1>5 DEF Min

(***************************************************************************)
(* What a run amounts to is an outcome of a step                           *)
(***************************************************************************)
LEMMA StepsArePositive ==
    ASSUME plan \in Plans
    PROVE  Steps \subseteq Nat \ {0}
BY PlanTyped DEF Steps

(* Combined steps are full only if none of them failed or stayed partial.   *)
LEMMA CombinedTyped ==
    ASSUME TypeOK, NEW steps \in SUBSET Steps, NEW hasFacts \in BOOLEAN
    PROVE  /\ Combined(steps, hasFacts) \in StepOutcomes
           /\ Combined(steps, hasFacts) \in {"success_with_rows", "zero_aggregate"} =>
                 OutcomesOf(steps) \cap (Failures \cup {"partial"}) = {}
<1> DEFINE outcomes == OutcomesOf(steps)
           failed == {s \in steps : result[s].outcome \in Failures}
           ranking == <<"partial", "zero_aggregate", "success_with_rows", "success_empty">>
           present == {i \in DOMAIN ranking : ranking[i] \in outcomes}
<1>1. CASE "contract_error" \in outcomes
    <2>1. Combined(steps, hasFacts) = "contract_error" BY <1>1 DEF Combined
    <2> QED BY <2>1 DEF StepOutcomes
<1>2. CASE "contract_error" \notin outcomes /\ failed # {}
    <2>1. Min(failed) \in failed BY <1>2, MinIn, StepsArePositive DEF TypeOK
    <2>2. Combined(steps, hasFacts) = IF hasFacts THEN "partial" ELSE result[Min(failed)].outcome
        BY <1>2 DEF Combined
    <2>3. Combined(steps, hasFacts) \in Failures \cup {"partial"} BY <2>1, <2>2
    <2> QED BY <2>3 DEF Failures, StepOutcomes
<1>3. CASE "contract_error" \notin outcomes /\ failed = {}
    <2>1. outcomes \cap Failures = {} BY <1>3 DEF OutcomesOf
    <2>2. Combined(steps, hasFacts)
            = IF present # {} THEN ranking[Min(present)] ELSE "contract_error"
        BY <1>3 DEF Combined
    <2>3. DOMAIN ranking = 1 .. 4 OBVIOUS
    <2>4. CASE present = {} BY <2>2, <2>4 DEF StepOutcomes
    <2>5. CASE present # {}
        <3>1. present \in SUBSET Nat BY <2>3
        <3>2. Min(present) \in present /\ \A i \in present : Min(present) <= i
            BY <2>5, <3>1, MinIn
        <3>3. Combined(steps, hasFacts) = ranking[Min(present)] BY <2>2, <2>5
        <3>4. ranking[1] = "partial" /\ Min(present) \in 1 .. 4 BY <3>2, <2>3
        <3>5. ASSUME "partial" \in outcomes PROVE Combined(steps, hasFacts) = "partial"
            <4>1. 1 \in present BY <3>5, <3>4, <2>3
            <4>2. Min(present) = 1 BY <4>1, <3>2, <3>4
            <4> QED BY <3>3, <3>4, <4>2
        <3>6. ranking[Min(present)] \in StepOutcomes BY <3>4 DEF StepOutcomes
        <3> QED BY <2>1, <3>3, <3>5, <3>6
    <2> QED BY <2>4, <2>5
<1> QED BY <1>1, <1>2, <1>3

LEMMA OverallTyped ==
    ASSUME TypeOK
    PROVE  OverallOutcome \in StepOutcomes
<1> DEFINE decisive == {s \in Counted : result[s].outcome \in
                            Failures \cup {"success_empty", "documentation_empty"}}
<1>1. Counted \in SUBSET Steps BY DEF Counted
<1>2. Combined(Counted, TRUE) \in StepOutcomes /\ Combined(Counted, FALSE) \in StepOutcomes
    BY <1>1, CombinedTyped
<1>3. decisive # {} => Min(decisive) \in decisive
    BY <1>1, MinIn, StepsArePositive DEF TypeOK
<1>4. (IF result[Min(decisive)].outcome \in Failures
       THEN result[Min(decisive)].outcome ELSE "success_empty") \in StepOutcomes
    BY DEF Failures, StepOutcomes
<1> QED BY <1>2, <1>4 DEF OverallOutcome, StepOutcomes

LEMMA FinalTyped ==
    ASSUME TypeOK
    PROVE  FinalOutcome \in StepOutcomes
BY OverallTyped DEF FinalOutcome, StepOutcomes

(* A full outcome counts no failed and no partial step and no open question, *)
(* and every required final output has its facts.                          *)
LEMMA FullOutcome ==
    ASSUME TypeOK, \A s \in Steps : Proper(plan[s], result[s]),
           FinalOutcome \in {"success_with_rows", "zero_aggregate"}
    PROVE  /\ OutcomesOf(Counted) \cap (Failures \cup {"partial", "clarification_required"}) = {}
           /\ RequiredFinals \subseteq Produced
<1> DEFINE outcomes == OutcomesOf(Counted)
           decisive == {s \in Counted : result[s].outcome \in
                            Failures \cup {"success_empty", "documentation_empty"}}
<1>1. Counted \in SUBSET Steps BY DEF Counted
<1>2. /\ OverallOutcome = FinalOutcome
      /\ Sufficient \/ ~ \E s \in Steps : Ran(s) /\ result[s].rows > 0
    BY DEF FinalOutcome
<1>3. "contract_error" \notin outcomes /\ "clarification_required" \notin outcomes
    BY <1>2 DEF OverallOutcome
<1>4. ~IsDocumentation BY <1>2, <1>3 DEF OverallOutcome
<1>5. RequiredFinals \subseteq Produced
    <2>1. SUFFICES ASSUME ~(RequiredFinals \subseteq Produced) PROVE FALSE
        OBVIOUS
    <2>2. Produced = {} BY <1>2, <1>3, <1>4, <2>1 DEF OverallOutcome
    <2>3. decisive = {}
        <3>1. SUFFICES ASSUME decisive # {} PROVE FALSE
            OBVIOUS
        <3>2. OverallOutcome = IF result[Min(decisive)].outcome \in Failures
                               THEN result[Min(decisive)].outcome ELSE "success_empty"
            BY <1>3, <1>4, <2>1, <2>2, <3>1 DEF OverallOutcome
        <3> QED BY <1>2, <3>2 DEF Failures
    <2>4. OverallOutcome = Combined(Counted, FALSE)
        BY <1>3, <1>4, <2>1, <2>2, <2>3 DEF OverallOutcome
    <2>5. ~Sufficient
        <3>1. PICK f \in RequiredFinals : f \notin Produced BY <2>1
        <3>2. f \in Steps BY <3>1 DEF RequiredFinals, Finals, Steps
        <3>3. result[f].rows \in Nat BY <3>2 DEF TypeOK, Results
        <3>4. ~(result[f].rows > 0) BY <3>1 DEF Produced
        <3>5. ~Covered(f) BY <3>3, <3>4 DEF Covered
        <3> QED BY <3>1, <3>5 DEF Sufficient
    <2>6. \E s \in Counted : result[s].outcome \in {"success_with_rows", "zero_aggregate"}
        <3> DEFINE ranking == <<"partial", "zero_aggregate", "success_with_rows", "success_empty">>
                   present == {i \in DOMAIN ranking : ranking[i] \in outcomes}
                   failed == {s \in Counted : result[s].outcome \in Failures}
        <3>1. failed = {} BY <2>3
        <3>2. Combined(Counted, FALSE)
                = IF present # {} THEN ranking[Min(present)] ELSE "contract_error"
            BY <1>3, <3>1 DEF Combined
        <3>3. present # {} /\ OverallOutcome = ranking[Min(present)] BY <1>2, <2>4, <3>2
        <3>4. present \in SUBSET Nat OBVIOUS
        <3>5. Min(present) \in present BY <3>3, <3>4, MinIn
        <3>6. OverallOutcome \in outcomes BY <3>3, <3>5
        <3> QED BY <1>2, <3>6 DEF OutcomesOf
    <2>7. PICK s \in Counted : result[s].outcome \in {"success_with_rows", "zero_aggregate"}
        BY <2>6
    <2>8. Ran(s) /\ result[s].rows > 0 BY <2>7, <1>1 DEF Counted, Proper
    <2> QED BY <1>1, <1>2, <2>5, <2>7, <2>8
<1>6. OverallOutcome = Combined(Counted, TRUE)
    BY <1>3, <1>4, <1>5 DEF OverallOutcome
<1>7. outcomes \cap (Failures \cup {"partial"}) = {} BY <1>1, <1>2, <1>6, CombinedTyped
<1> QED BY <1>3, <1>5, <1>7

(***************************************************************************)
(* Results, questions and reports of a run                                 *)
(***************************************************************************)

(* Every result is proper, a rank that put something first read its whole   *)
(* input, and only a resolver is asked about or resumed.                   *)
RunInv ==
    /\ TypeOK
    /\ \A s \in Steps :
          /\ Proper(plan[s], result[s])
          /\ plan[s].kind = "rank" /\ result[s].outcome = "success_with_rows" =>
                result[plan[s].input].whole
    /\ resumed # 0 => IsResolver(plan[resumed]) /\ Ran(resumed)
    /\ status = "asked" => report.question \in Steps /\ IsResolver(plan[report.question])
    /\ status = "running" => report = NoReport

LEMMA RecordRun ==
    ASSUME RunInv, NEW s \in Steps, Runnable(s), NEW r, Record(s, r), Proper(plan[s], r),
           plan[s].kind = "rank" /\ r.outcome = "success_with_rows" =>
                result[plan[s].input].whole
    PROVE  RunInv'
<1>1. /\ plan' = plan /\ blocked' = blocked /\ status' = status /\ report' = report
      /\ resumed' = resumed /\ answered' = answered /\ stopAll' = Stops(s, r)
      /\ result' = [result EXCEPT ![s] = r]
    BY DEF Record
<1>2. Steps' = Steps BY <1>1 DEF Steps
<1>3. r \in Results BY DEF Proper
<1>4. result' \in [Steps -> Results] BY <1>1, <1>3 DEF RunInv, TypeOK
<1>5. stopAll' \in BOOLEAN BY <1>1 DEF Stops
<1>6. TypeOK' BY <1>1, <1>2, <1>4, <1>5 DEF RunInv, TypeOK
<1>7. ~Ran(s) /\ ~result[s].whole
    <2>1. ~Ran(s) BY NextIsOpen DEF Runnable
    <2> QED BY <2>1 DEF Ran, RunInv, Proper
<1>8. ASSUME NEW u \in Steps
      PROVE  /\ Proper(plan[u], result'[u])
             /\ plan[u].kind = "rank" /\ result'[u].outcome = "success_with_rows" =>
                    result'[plan[u].input].whole
    <2>1. CASE u = s
        <3>1. result'[u] = r BY <1>1, <2>1 DEF RunInv, TypeOK
        <3>2. plan[u].kind = "rank" => plan[u].input \in Steps /\ plan[u].input # s
            BY <2>1, PlanTyped DEF RunInv, TypeOK, Steps
        <3>3. plan[u].kind = "rank" => result'[plan[u].input] = result[plan[u].input]
            BY <1>1, <3>2 DEF RunInv, TypeOK
        <3> QED BY <2>1, <3>1, <3>3
    <2>2. CASE u # s
        <3>1. result'[u] = result[u] BY <1>1, <2>2 DEF RunInv, TypeOK
        <3>2. Proper(plan[u], result[u]) BY DEF RunInv
        <3>3. ASSUME plan[u].kind = "rank", result[u].outcome = "success_with_rows"
              PROVE  result'[plan[u].input].whole
            <4>1. result[plan[u].input].whole BY <3>3 DEF RunInv
            <4>2. plan[u].input \in Steps BY <3>3, PlanTyped DEF RunInv, TypeOK, Steps
            <4>3. plan[u].input # s BY <1>7, <4>1
            <4> QED BY <1>1, <4>1, <4>2, <4>3 DEF RunInv, TypeOK
        <3> QED BY <3>1, <3>2, <3>3
    <2> QED BY <2>1, <2>2
<1>9. \A u \in Steps' :
        /\ Proper(plan'[u], result'[u])
        /\ plan'[u].kind = "rank" /\ result'[u].outcome = "success_with_rows" =>
                result'[plan'[u].input].whole
    BY <1>1, <1>2, <1>8
<1>10. ASSUME resumed # 0 PROVE result'[resumed] = result[resumed]
    <2>1. resumed # s BY <1>7, <1>10 DEF RunInv
    <2> QED BY <1>1, <1>10, <2>1 DEF RunInv, TypeOK
<1> QED BY <1>1, <1>2, <1>6, <1>9, <1>10 DEF RunInv, Proper, IsResolver, IsCall, Ran

LEMMA BlockRun ==
    ASSUME RunInv, NEW s \in Steps, Block(s)
    PROVE  RunInv'
BY DEF Block, RunInv, TypeOK, Steps, Proper, IsResolver, IsCall, Ran

LEMMA QueryRun ==
    ASSUME RunInv, NEW s \in Steps, Query(s)
    PROVE  RunInv'
<1>1. PICK reply \in Replies :
        Record(s, AppliedState(s, DataResult(Skill(s), reply, IsRankSource(plan, s))))
    BY DEF Query
<1> DEFINE r == DataResult(Skill(s), reply, IsRankSource(plan, s))
<1>2. plan \in Plans BY DEF RunInv, TypeOK
<1>3. Skill(s) \in Skills BY <1>2, PlanTyped DEF Skill, PlanSteps, Steps
<1>4. IsRankSource(plan, s) \in BOOLEAN BY DEF IsRankSource
<1>5. /\ r \in Results /\ r.outcome # "not_run"
      /\ r.outcome \in {"success_with_rows", "zero_aggregate"} => r.rows > 0
      /\ r.outcome = "clarification_required" => ~r.whole /\ r.ids = 0
      /\ ~IsRankSource(plan, s) => ~r.whole
    BY <1>3, <1>4, DataResultProper
<1> HIDE DEF r
<1>6. Proper(plan[s], AppliedState(s, r)) BY <1>2, <1>5, AppliedProper
<1>7. plan[s].kind # "rank" /\ Runnable(s) BY DEF Query, IsCall
<1>8. Record(s, AppliedState(s, r)) BY <1>1 DEF r
<1> QED BY <1>6, <1>7, <1>8, RecordRun

LEMMA SearchRun ==
    ASSUME RunInv, NEW s \in Steps, Search(s)
    PROVE  RunInv'
<1>1. plan[s].kind # "rank" /\ Runnable(s) BY DEF Search, IsCall
<1>2. ASSUME NEW rows \in 0 .. PageSize,
             Record(s, Made(IF rows = 0 THEN "documentation_empty" ELSE "documentation_found",
                            rows, 0, "visible_page"))
      PROVE  RunInv'
    <2> DEFINE outcome == IF rows = 0 THEN "documentation_empty" ELSE "documentation_found"
    <2>1. outcome \in {"documentation_empty", "documentation_found"} OBVIOUS
    <2>2. rows \in Nat BY <1>2, ExecutorAssumption DEF ExecutorAssumption
    <2>3. Record(s, Made(outcome, rows, 0, "visible_page")) BY <1>2
    <2> HIDE DEF outcome
    <2>4. Proper(plan[s], Made(outcome, rows, 0, "visible_page"))
        BY <2>1, <2>2, MadeProper DEF StepOutcomes
    <2> QED BY <1>1, <2>3, <2>4, RecordRun
<1>3. CASE Record(s, Made("contract_error", 0, 0, "visible_page"))
    <2>1. Proper(plan[s], Made("contract_error", 0, 0, "visible_page"))
        BY MadeProper DEF StepOutcomes
    <2> QED BY <1>1, <1>3, <2>1, RecordRun
<1> QED BY <1>2, <1>3 DEF Search

LEMMA RefuseRun ==
    ASSUME RunInv, NEW s \in Steps, RefuseArguments(s)
    PROVE  RunInv'
<1> DEFINE r == Made("contract_error", 0, 0, SkillScope(Skill(s)))
<1>1. plan[s].kind # "rank" /\ Runnable(s) /\ Record(s, AppliedState(s, r))
    BY DEF RefuseArguments, IsCall
<1>2. r \in Results /\ r.outcome = "contract_error" /\ ~r.whole
    BY MadeTyped, ScopeTyped DEF StepOutcomes
<1> HIDE DEF r
<1>3. plan \in Plans BY DEF RunInv, TypeOK
<1>4. Proper(plan[s], AppliedState(s, r)) BY <1>2, <1>3, AppliedProper
<1> QED BY <1>1, <1>4, RecordRun

LEMMA PeriodRun ==
    ASSUME RunInv, NEW s \in Steps, NormalizePeriod(s)
    PROVE  RunInv'
<1>1. Proper(plan[s], Made("success_with_rows", 1, 0, "complete_set"))
    BY MadeProper DEF StepOutcomes
<1> QED BY <1>1, RecordRun DEF NormalizePeriod

LEMMA CountRun ==
    ASSUME RunInv, NEW s \in Steps, Count(s)
    PROVE  RunInv'
<1> DEFINE source == plan[s].input
           outcome == IF result[source].rows = 0 THEN "zero_aggregate" ELSE "success_with_rows"
<1>1. outcome \in {"zero_aggregate", "success_with_rows"} OBVIOUS
<1>2. source \in Steps BY PlanTyped DEF Count, RunInv, TypeOK, Steps
<1>3. result[source].scope \in {"visible_page", "complete_set"}
    BY <1>2 DEF RunInv, TypeOK, Results
<1>4. /\ Record(s, Made(outcome, 1, 0, result[source].scope)) /\ Runnable(s)
      /\ plan[s].kind # "rank"
    BY DEF Count
<1> HIDE DEF outcome, source
<1>5. Proper(plan[s], Made(outcome, 1, 0, result[source].scope))
    BY <1>1, <1>3, MadeProper DEF StepOutcomes
<1> QED BY <1>4, <1>5, RecordRun

LEMMA RankRun ==
    ASSUME RunInv, NEW s \in Steps, Rank(s)
    PROVE  RunInv'
<1> DEFINE source == plan[s].input
           ranked(outcome, n) == Made(outcome, n, n, "complete_set")
<1>1. plan[s].kind = "rank" /\ Runnable(s) /\ ~IsCall(plan[s]) BY DEF Rank, IsCall
<1>2. source \in Steps BY <1>1, PlanTyped DEF RunInv, TypeOK, Steps
<1>3. result[source] \in Results BY <1>2 DEF RunInv, TypeOK
<1>4. CASE Record(s, [ranked("success_empty", 0) EXCEPT !.reason = result[source].reason])
    <2> DEFINE r == [ranked("success_empty", 0) EXCEPT !.reason = result[source].reason]
    <2>1. Proper(plan[s], ranked("success_empty", 0)) BY MadeProper DEF StepOutcomes
    <2>2. ranked("success_empty", 0).outcome = "success_empty"
        BY MadeTyped DEF StepOutcomes
    <2>3. result[source].reason \in {"none", "not_found", "no_rows"} BY <1>3 DEF Results
    <2> HIDE DEF ranked, source
    <2>4. Proper(plan[s], r) /\ r.outcome = "success_empty"
        BY <2>1, <2>2, <2>3 DEF Proper, Results
    <2> QED BY <1>1, <1>4, <2>4, RecordRun
<1>5. ASSUME Rankable(source), NEW winners \in Winners(s),
             Record(s, ranked(IF IsRankSelector(plan, s) /\ winners > 1
                              THEN "clarification_required" ELSE "success_with_rows", winners))
      PROVE  RunInv'
    <2> DEFINE outcome == IF IsRankSelector(plan, s) /\ winners > 1
                          THEN "clarification_required" ELSE "success_with_rows"
    <2>1. outcome \in {"clarification_required", "success_with_rows"} OBVIOUS
    <2>2. winners \in Nat /\ winners > 0
        BY <1>3 DEF Winners, RankCandidates, Results
    <2> HIDE DEF outcome
    <2>3. Proper(plan[s], Made(outcome, winners, winners, "complete_set"))
        BY <1>1, <2>1, <2>2, MadeProper DEF StepOutcomes
    <2>4. result[source].whole BY <1>5 DEF Rankable
    <2>5. Record(s, Made(outcome, winners, winners, "complete_set")) BY <1>5 DEF outcome
    <2> QED BY <1>1, <2>3, <2>4, <2>5, RecordRun
<1>6. CASE Record(s, ranked("contract_error", 0))
    <2>1. Proper(plan[s], ranked("contract_error", 0)) BY MadeProper DEF StepOutcomes
    <2>2. ranked("contract_error", 0).outcome = "contract_error"
        BY MadeTyped DEF StepOutcomes
    <2> HIDE DEF ranked
    <2> QED BY <1>1, <1>6, <2>1, <2>2, RecordRun
<1> QED BY <1>4, <1>5, <1>6 DEF Rank
LEMMA RestartRun ==
    ASSUME RunInv, NEW step, step # 0 => step \in Steps /\ IsResolver(plan[step]),
           Restart(step)
    PROVE  RunInv'
<1>1. /\ plan' = plan /\ blocked' = {} /\ stopAll' = FALSE /\ status' = "running"
      /\ report' = NoReport /\ resumed' = step
      /\ result' = [s \in Steps |-> IF s = step THEN Resumed ELSE NotRun]
      /\ answered' = IF step = 0 THEN answered ELSE Append(answered, step)
    BY DEF Restart
<1>2. Steps' = Steps BY <1>1 DEF Steps
<1>3. /\ NotRun \in Results /\ NotRun.outcome = "not_run" /\ NotRun.rows = 0
      /\ ~NotRun.draft /\ ~NotRun.whole
    BY MadeTyped DEF NotRun
<1>4. Resumed \in Results /\ Resumed.outcome = "success_with_rows" /\ Resumed.rows = 1
    BY DEF Resumed, Made, Results, StepOutcomes
<1>5. \A p : Proper(p, NotRun) /\ Proper(p, Resumed) BY <1>3, <1>4 DEF Proper
<1>6. result' \in [Steps -> Results] BY <1>1, <1>3, <1>4
<1>7. /\ answered' \in Seq(Steps)
      /\ resumed' # 0 => answered' # <<>> /\ answered'[Len(answered')] = resumed'
    <2>1. answered \in Seq(Steps) BY DEF RunInv, TypeOK
    <2>2. CASE step = 0 BY <1>1, <2>1, <2>2
    <2>3. CASE step # 0
        <3>1. answered' = Append(answered, step) BY <1>1, <2>3
        <3>2. step \in Steps BY <2>3
        <3> QED BY <1>1, <2>1, <3>1, <3>2
    <2> QED BY <2>2, <2>3
<1>8. NoReport \in Reports BY DEF NoReport, Reports
<1>9. TypeOK'
    BY <1>1, <1>2, <1>6, <1>7, <1>8 DEF RunInv, TypeOK
<1>10. ASSUME NEW u \in Steps
       PROVE  /\ Proper(plan[u], result'[u])
              /\ ~(plan[u].kind = "rank" /\ result'[u].outcome = "success_with_rows")
    <2>1. result'[u] = IF u = step THEN Resumed ELSE NotRun BY <1>1
    <2>2. step \in Steps \/ step = 0 OBVIOUS
    <2>3. u \in Nat \ {0} BY StepsArePositive DEF RunInv, TypeOK
    <2>4. u = step => plan[u].kind # "rank" BY <2>3 DEF IsResolver, IsCall
    <2> QED BY <1>3, <1>5, <2>1, <2>4
<1>11. \A u \in Steps' :
        /\ Proper(plan'[u], result'[u])
        /\ ~(plan'[u].kind = "rank" /\ result'[u].outcome = "success_with_rows")
    BY <1>1, <1>2, <1>10
<1>12. resumed' # 0 => IsResolver(plan'[resumed']) /\ result'[resumed'].outcome # "not_run"
    BY <1>1, <1>4
<1> QED BY <1>1, <1>9, <1>11, <1>12 DEF RunInv, Proper, IsResolver, IsCall, Ran

(* A question is about a resolver. *)
LEMMA AskedIsResolver ==
    ASSUME TypeOK, Asked # 0
    PROVE  Asked \in Steps /\ IsResolver(plan[Asked])
<1>1. plan \in Plans /\ Steps \subseteq Nat \ {0} BY StepsArePositive DEF TypeOK
<1>2. CASE Ambiguous # {}
    <2>1. Ambiguous \in SUBSET Nat BY <1>1 DEF Ambiguous
    <2>2. Asked \in Ambiguous BY <1>2, <2>1, MinIn DEF Asked
    <2> QED BY <2>2 DEF Ambiguous, Mode
<1>3. CASE Ambiguous = {}
    <2>1. Tied # {} /\ Asked = plan[Min(Tied)].input BY <1>3 DEF Asked
    <2>2. Tied \in SUBSET Nat BY <1>1 DEF Tied
    <2>3. Min(Tied) \in Tied BY <2>1, <2>2, MinIn
    <2>4. Min(Tied) \in Steps /\ IsRankSelector(plan, Min(Tied)) BY <2>3 DEF Tied
    <2> QED BY <1>1, <2>1, <2>4, PlanTyped DEF IsRankSelector, Steps
<1> QED BY <1>2, <1>3

LEMMA DraftsTyped ==
    ASSUME TypeOK, Drafts # {}
    PROVE  Min(Drafts) \in Drafts /\ Min(Drafts) \in Nat
<1>1. Drafts \in SUBSET Nat BY StepsArePositive DEF TypeOK, Drafts
<1> QED BY <1>1, MinIn

LEMMA ConcludeRun ==
    ASSUME RunInv, Conclude
    PROVE  RunInv'
<1>1. /\ plan' = plan /\ result' = result /\ blocked' = blocked /\ stopAll' = stopAll
      /\ resumed' = resumed /\ answered' = answered
    BY DEF Conclude, run
<1>2. CASE status' = "raised" /\ report' = report
    BY <1>1, <1>2 DEF RunInv, TypeOK, Steps, Proper, IsResolver, IsCall, Ran
<1>3. ASSUME NEW narrow \in BOOLEAN,
             status' = IF Asked # 0 THEN "asked" ELSE "answered",
             report' = [outcome |-> FinalOutcome, exports |-> Exports,
                        question |-> Asked, narrow |-> narrow,
                        page |-> IF Drafts # {} THEN Min(Drafts) ELSE 0]
      PROVE  RunInv'
    <2>1. TypeOK /\ plan \in Plans BY DEF RunInv, TypeOK
    <2>2. FinalOutcome \in StepOutcomes BY <2>1, FinalTyped
    <2>3. Exports \in SUBSET (Nat \ {0})
        <3>1. Required \subseteq Steps BY DEF Required, RequiredSteps, ReverseClosure, Steps
        <3> QED BY <2>1, <3>1, StepsArePositive DEF Exports
    <2>4. Asked = 0 \/ (Asked \in Steps /\ IsResolver(plan[Asked]))
        BY <2>1, AskedIsResolver
    <2>5. Asked \in Nat BY <2>1, <2>4, StepsArePositive
    <2>6. (IF Drafts # {} THEN Min(Drafts) ELSE 0) \in Nat BY <2>1, DraftsTyped
    <2>7. report' \in Reports BY <1>3, <2>2, <2>3, <2>5, <2>6 DEF Reports
    <2>8. status' \in {"asked", "answered"} BY <1>3
    <2>9. TypeOK' BY <1>1, <2>1, <2>7, <2>8 DEF TypeOK, Steps
    <2>10. status' = "asked" => report'.question \in Steps /\ IsResolver(plan[report'.question])
        BY <1>3, <2>4
    <2> QED BY <1>1, <2>8, <2>9, <2>10 DEF RunInv, Steps, Proper, IsResolver, IsCall, Ran
<1> QED BY <1>2, <1>3 DEF Conclude

LEMMA NextRun == RunInv /\ [Next]_vars => RunInv'
<1> SUFFICES ASSUME RunInv, [Next]_vars PROVE RunInv'
    OBVIOUS
<1>1. ASSUME NEW s \in Steps, Step(s) PROVE RunInv'
    BY <1>1, BlockRun, QueryRun, SearchRun, RefuseRun, PeriodRun, CountRun, RankRun DEF Step
<1>2. ASSUME run' = run, report' = report, status' \in {status, "raised"} PROVE RunInv'
    BY <1>2 DEF run, RunInv, TypeOK, Steps, Proper, IsResolver, IsCall, Ran
<1>3. CASE Raise BY <1>3, <1>2 DEF Raise, run
<1>4. CASE Conclude BY <1>4, ConcludeRun
<1>5. CASE Choose
    <2>1. Restart(report.question) /\ status = "asked" BY <1>5 DEF Choose
    <2> DEFINE step == report.question
    <2>2. step \in Steps /\ IsResolver(plan[step]) BY <2>1 DEF RunInv
    <2>3. Restart(step) BY <2>1
    <2> HIDE DEF step
    <2> QED BY <2>2, <2>3, RestartRun
<1>6. CASE Narrow
    <2>1. CASE Restart(0) BY <2>1, RestartRun
    <2>2. CASE status' = "raised" /\ UNCHANGED <<run, report>> BY <2>2, <1>2
    <2> QED BY <1>6, <2>1, <2>2 DEF Narrow
<1>7. CASE UNCHANGED vars BY <1>7, <1>2 DEF vars, run
<1> QED BY <1>1, <1>3, <1>4, <1>5, <1>6, <1>7 DEF Next, Execute

LEMMA InitRun == Init => RunInv
<1> SUFFICES ASSUME Init PROVE RunInv
    OBVIOUS
<1>1. /\ NotRun \in Results /\ NotRun.outcome = "not_run" /\ NotRun.rows = 0
      /\ ~NotRun.draft /\ ~NotRun.whole
    BY MadeTyped DEF NotRun
<1>2. NoReport \in Reports BY DEF NoReport, Reports
<1>3. TypeOK
    <2>1. result \in [Steps -> Results] BY <1>1 DEF Init
    <2>2. answered \in Seq(Steps) /\ resumed = 0 BY DEF Init
    <2> HIDE DEF Steps
    <2> QED BY <1>2, <2>1, <2>2 DEF Init, TypeOK
<1>4. \A s \in Steps : Proper(plan[s], result[s]) /\ result[s].outcome = "not_run"
    BY <1>1 DEF Init, Proper
<1>5. resumed = 0 /\ status = "running" /\ report = NoReport BY DEF Init
<1> QED BY <1>3, <1>4, <1>5 DEF RunInv

LEMMA RunInvariant == Spec => []RunInv
BY InitRun, NextRun, PTL DEF Spec

(* The variables of a run have their types (the results of execute and the  *)
(* report of _complete_execution), and the resumed step is the last the     *)
(* user has chosen for.                                                    *)
THEOREM ExecutorTypeCorrect == Spec => []TypeOK
<1>1. RunInv => TypeOK BY DEF RunInv
<1> QED BY <1>1, RunInvariant, PTL

(***************************************************************************)
(* Reports                                                                 *)
(***************************************************************************)

Published ==
    /\ status' = IF Asked # 0 THEN "asked" ELSE "answered"
    /\ report'.outcome = FinalOutcome /\ report'.exports = Exports
    /\ report'.question = Asked
    /\ report'.page = IF Drafts # {} THEN Min(Drafts) ELSE 0

(* A step leaves no report, leaves the report that was there, or publishes  *)
(* what the run amounts to.                                                *)
LEMMA ReportSteps ==
    ASSUME RunInv, [Next]_vars
    PROVE  \/ report' = NoReport /\ status' \in {"running", "raised"}
           \/ UNCHANGED <<run, report>> /\ status' \in {status, "raised"}
           \/ /\ UNCHANGED run /\ Running /\ Candidates = {} /\ ~Unpublishable
              /\ Published
<1>1. ASSUME NEW s \in Steps, Step(s) PROVE report' = NoReport /\ status' = "running"
    <2>1. status = "running"
        BY <1>1 DEF Step, Block, Query, Search, RefuseArguments, NormalizePeriod, Count, Rank,
                    Runnable, Running
    <2>2. report' = report /\ status' = status
        BY <1>1 DEF Step, Block, Query, Search, RefuseArguments, NormalizePeriod, Count, Rank,
                    Record
    <2> QED BY <2>1, <2>2 DEF RunInv
<1>2. CASE Raise BY <1>2 DEF Raise, RunInv
<1>3. CASE Conclude
    <2>1. CASE Unpublishable BY <1>3, <2>1 DEF Conclude, Running, RunInv
    <2>2. CASE ~Unpublishable BY <1>3, <2>2 DEF Conclude, Published
    <2> QED BY <2>1, <2>2
<1>4. CASE Choose BY <1>4 DEF Choose, Restart
<1>5. CASE Narrow BY <1>5 DEF Narrow, Restart
<1>6. CASE UNCHANGED vars BY <1>6 DEF vars, run
<1> QED BY <1>1, <1>2, <1>3, <1>4, <1>5, <1>6 DEF Next, Execute

(* Every required step of a run with a full outcome ran, or only served to  *)
(* find the object the user has chosen.                                    *)
LEMMA FullRunsAll ==
    ASSUME RunInv, IInv, FinalOutcome \in {"success_with_rows", "zero_aggregate"},
           NEW s \in Required
    PROVE  /\ result[s].outcome \notin Failures \cup {"partial", "clarification_required"}
           /\ Ran(s) \/ (resumed # 0 /\ s \in ReverseClosure(plan, {resumed}) \ {resumed})
<1> DEFINE spared == {u \in Steps : resumed # 0 /\ u \in ReverseClosure(plan, {resumed})}
           good == {u \in Steps : Ran(u) \/ u \in spared}
<1>1. /\ OutcomesOf(Counted) \cap (Failures \cup {"partial", "clarification_required"}) = {}
      /\ RequiredFinals \subseteq Produced
    BY FullOutcome DEF RunInv
<1>2. s \in Steps BY DEF Required, RequiredSteps, ReverseClosure, Steps
<1>3. ASSUME result[s].outcome \in Failures \cup {"partial", "clarification_required"}
      PROVE  FALSE
    <2>1. Ran(s) BY <1>3 DEF Ran, Failures
    <2>2. s \in Counted BY <1>2, <2>1 DEF Counted
    <2> QED BY <1>1, <1>3, <2>2 DEF OutcomesOf
<1>4. ASSUME NEW t \in good, NEW d \in StepDependencies(plan[t]) \cap Positions(plan)
      PROVE  d \in good
    <2>1. d \in Steps BY DEF Steps
    <2>2. CASE Ran(t) /\ t # resumed
        BY <2>1, <2>2 DEF IInv, RunsAfterInputs
    <2>3. CASE t = resumed
        <3>1. t \in Steps /\ t # 0 BY <2>3, StepsArePositive DEF RunInv, TypeOK
        <3>2. t \in ReverseClosure(plan, {resumed})
            BY <2>3, <3>1 DEF ReverseClosure, Steps
        <3>3. d \in ReverseClosure(plan, {resumed}) BY <3>2, ClosureHolds
        <3> QED BY <2>1, <2>3, <3>1, <3>3
    <2>4. CASE t \in spared
        <3>1. d \in ReverseClosure(plan, {resumed}) BY <2>4, ClosureHolds
        <3> QED BY <2>1, <2>4, <3>1
    <2> QED BY <2>2, <2>3, <2>4
<1>5. RequiredFinals \subseteq good
    <2>1. SUFFICES ASSUME NEW f \in RequiredFinals PROVE f \in good
        OBVIOUS
    <2>2. f \in Steps BY DEF RequiredFinals, Finals, Steps
    <2>3. result[f].rows > 0 BY <1>1 DEF Produced
    <2>4. Ran(f) BY <2>2, <2>3 DEF RunInv, Proper, Ran
    <2> QED BY <2>2, <2>4
<1>6. good \in SUBSET Positions(plan) BY DEF Steps
<1> HIDE DEF good
<1>7. \A t \in good : StepDependencies(plan[t]) \cap Positions(plan) \subseteq good
    BY <1>4
<1>8. s \in good
    BY <1>5, <1>6, <1>7 DEF Required, RequiredSteps, RequiredFinals, ReverseClosure
<1>9. resumed # 0 => Ran(resumed) BY DEF RunInv
<1> QED BY <1>3, <1>8, <1>9 DEF good

(* An answer that claims to be full (_overall_outcome,                      *)
(* _finalize_coverage_outcome) had every required step run without failure, *)
(* part or question, whatever happened before a resumed round.             *)
THEOREM FullAnswersAreFull == Spec => []FullAnswerIsFull
<1>1. Init => FullAnswerIsFull BY DEF Init, NoReport, FullAnswerIsFull
<1>2. RunInv /\ IInv /\ FullAnswerIsFull /\ [Next]_vars => FullAnswerIsFull'
    <2> SUFFICES ASSUME RunInv, IInv, FullAnswerIsFull, [Next]_vars PROVE FullAnswerIsFull'
        OBVIOUS
    <2>1. CASE report' = NoReport BY <2>1 DEF NoReport, FullAnswerIsFull
    <2>2. CASE UNCHANGED <<run, report>>
        BY <2>2 DEF run, FullAnswerIsFull, Required, Ran
    <2>3. CASE UNCHANGED run /\ Published
        <3>1. /\ plan' = plan /\ result' = result /\ resumed' = resumed
              /\ report'.outcome = FinalOutcome
            BY <2>3 DEF run, Published
        <3>2. Required' = Required BY <3>1 DEF Required
        <3> QED BY <3>1, <3>2, FullRunsAll DEF FullAnswerIsFull, Ran
    <2> QED BY <2>1, <2>2, <2>3, ReportSteps
<1> QED BY <1>1, <1>2, RunInvariant, OrderInvariant, PTL DEF Spec

(***************************************************************************)
(* Exports                                                                 *)
(***************************************************************************)
LEMMA AtMostOne ==
    ASSUME NEW S, IsFiniteSet(S), Cardinality(S) <= 1, NEW a \in S, NEW b \in S
    PROVE  a = b
<1>1. SUFFICES ASSUME a # b PROVE FALSE
    OBVIOUS
<1>2. IsFiniteSet({a}) /\ Cardinality({a}) = 1 BY FS_Singleton
<1>3. IsFiniteSet({a} \cup {b}) /\ Cardinality({a} \cup {b}) = 2
    <2>1. b \notin {a} BY <1>1
    <2>2. IsFiniteSet({a} \cup {b}) /\ Cardinality({a} \cup {b}) = Cardinality({a}) + 1
        BY <1>2, <2>1, FS_AddElement
    <2> QED BY <1>2, <2>2
<1>4. {a} \cup {b} \subseteq S OBVIOUS
<1>5. Cardinality({a} \cup {b}) <= Cardinality(S) BY <1>4, FS_Subset
<1>6. Cardinality(S) \in Nat BY FS_CardinalityType
<1> QED BY <1>3, <1>5, <1>6

LEMMA StepsFinite ==
    ASSUME plan \in Plans, NEW S \in SUBSET Steps
    PROVE  IsFiniteSet(S)
<1>1. Len(plan) \in Nat /\ Steps = 1 .. Len(plan)
    BY ExecutorAssumption DEF ExecutorAssumption, Steps, Positions
<1>2. IsFiniteSet(1 .. Len(plan)) BY <1>1, FS_Interval
<1> QED BY <1>1, <1>2, FS_Subset

(* The object of an open question is not settled: an ambiguous resolver has *)
(* not exactly one candidate and is not read whole by a rank, and a tied    *)
(* rank is the only selector of its input.                                 *)
LEMMA AskedIsOpen ==
    ASSUME RunInv, UsesAgree(plan), NEW e \in Exports
    PROVE  Producer(e) # Asked
<1>1. e \in Steps /\ Settled(e) /\ plan \in Plans
    <2>1. e \in Required /\ Settled(e) BY DEF Exports
    <2> QED BY <2>1 DEF Required, RequiredSteps, ReverseClosure, Steps, RunInv, TypeOK
<1>2. Steps \subseteq Nat \ {0} BY <1>1, StepsArePositive
<1>3. CASE plan[e].kind = "rank"
    <2>1. SettledRank(e) /\ Producer(e) = plan[e].input BY <1>1, <1>3 DEF Settled, Producer
    <2>2. plan[e].input \in Steps BY <1>1, <1>3, PlanTyped DEF Steps
    <2>3. result[plan[e].input].whole BY <1>1, <1>3, <2>1 DEF SettledRank, RunInv
    <2>4. IsResolver(plan[plan[e].input]) BY <2>1 DEF SettledRank, IsRankSelector
    <2>5. result[plan[e].input].outcome # "clarification_required"
        BY <2>2, <2>3, <2>4 DEF RunInv, Proper, IsResolver
    <2>6. SUFFICES ASSUME plan[e].input = Asked PROVE FALSE
        BY <2>1
    <2>7. CASE Ambiguous # {}
        <3>1. Ambiguous \in SUBSET Nat BY <1>2 DEF Ambiguous
        <3>2. Asked \in Ambiguous BY <2>7, <3>1, MinIn DEF Asked
        <3> QED BY <2>5, <2>6, <3>2 DEF Ambiguous
    <2>8. CASE Ambiguous = {}
        <3>1. Tied # {} /\ Asked = plan[Min(Tied)].input
            BY <1>2, <2>2, <2>6, <2>8 DEF Asked
        <3>2. Min(Tied) \in Tied
            <4>1. Tied \in SUBSET Nat BY <1>2 DEF Tied
            <4> QED BY <3>1, <4>1, MinIn
        <3>3. PICK t \in Tied : plan[t].input = Asked BY <3>1, <3>2
        <3>4. t \in SelectorsOf(plan, Asked) /\ e \in SelectorsOf(plan, Asked)
            BY <1>1, <2>1, <2>6, <3>3 DEF Tied, SettledRank, SelectorsOf, Steps
        <3>5. IsFiniteSet(SelectorsOf(plan, Asked))
            BY <1>1, StepsFinite DEF SelectorsOf, Steps
        <3>6. Cardinality(SelectorsOf(plan, Asked)) <= 1
            BY <2>2, <2>4, <2>6 DEF UsesAgree, Steps
        <3>7. t = e BY <3>4, <3>5, <3>6, AtMostOne
        <3> QED BY <2>1, <3>3, <3>7 DEF Tied, SettledRank
    <2> QED BY <2>7, <2>8
<1>4. CASE plan[e].kind # "rank"
    <2>1. SettledResolver(e) /\ Producer(e) = e BY <1>1, <1>4 DEF Settled, Producer
    <2>2. SUFFICES ASSUME e = Asked PROVE FALSE
        BY <2>1
    <2>3. CASE Ambiguous # {}
        <3>1. Ambiguous \in SUBSET Nat BY <1>2 DEF Ambiguous
        <3>2. Asked \in Ambiguous BY <2>3, <3>1, MinIn DEF Asked
        <3>3. /\ Mode(plan, e) = "select_one"
              /\ result[e].outcome = "clarification_required"
            BY <2>2, <3>2 DEF Ambiguous
        <3>4. result[e].ids = 1 /\ ~result[e].more BY <2>1, <3>3 DEF SettledResolver
        <3>5. IsCall(plan[e]) BY <2>1 DEF SettledResolver, IsResolver
        <3> QED BY <1>1, <3>3, <3>4, <3>5 DEF RunInv, Proper
    <2>4. CASE Ambiguous = {}
        <3>1. Tied # {} /\ Asked = plan[Min(Tied)].input
            BY <1>1, <1>2, <2>2, <2>4 DEF Asked
        <3>2. Min(Tied) \in Tied
            <4>1. Tied \in SUBSET Nat BY <1>2 DEF Tied
            <4> QED BY <3>1, <4>1, MinIn
        <3>3. Min(Tied) \in SelectorsOf(plan, e)
            BY <2>2, <3>1, <3>2 DEF Tied, SelectorsOf, Steps
        <3> QED BY <2>1, <3>3 DEF SettledResolver, IsRankSource
    <2> QED BY <2>3, <2>4
<1> QED BY <1>3, <1>4

(* A run never exports the object it asks about (_selection_proofs against  *)
(* _pending_from_resolver), nor anything once a required step failed        *)
(* (_context_commit_allowed).                                              *)
THEOREM OnlySettledIsExported == Spec => []OnlySettledExported
<1>1. Init => OnlySettledExported BY DEF Init, NoReport, OnlySettledExported
<1>2. RunInv /\ OnlySettledExported /\ [Next]_vars => OnlySettledExported'
    <2> SUFFICES ASSUME RunInv, OnlySettledExported, [Next]_vars PROVE OnlySettledExported'
        OBVIOUS
    <2>1. CASE report' = NoReport BY <2>1 DEF NoReport, OnlySettledExported
    <2>2. CASE UNCHANGED <<run, report>>
        BY <2>2 DEF run, OnlySettledExported, Required, Producer
    <2>3. CASE UNCHANGED run /\ Published /\ Running
        <3>1. /\ plan' = plan /\ result' = result /\ report'.question = Asked
              /\ report'.exports = Exports
            BY <2>3 DEF run, Published
        <3>2. Required' = Required BY <3>1 DEF Required
        <3>3. \A e \in Exports : Producer(e) # Asked BY <2>3, AskedIsOpen DEF Running
        <3>4. ASSUME Exports # {}, NEW s \in Required PROVE result[s].outcome \notin Failures
            <4>1. ~ \E u \in Counted : result[u].outcome \in Failures BY <3>4 DEF Exports
            <4>2. s \in Steps BY DEF Required, RequiredSteps, ReverseClosure, Steps
            <4>3. Ran(s) => s \in Counted BY <4>2 DEF Counted
            <4> QED BY <4>1, <4>3 DEF Ran, Failures
        <3>5. \A e : Producer(e)' = Producer(e) BY <3>1 DEF Producer
        <3> QED BY <3>1, <3>2, <3>3, <3>4, <3>5 DEF OnlySettledExported
    <2> QED BY <2>1, <2>2, <2>3, ReportSteps
<1> QED BY <1>1, <1>2, RunInvariant, PTL DEF Spec

(* A list with more rows is the one the answer's page handle continues: an  *)
(* answer with two such lists is refused (execute, _complete_execution).   *)
THEOREM NoListIsCutShort == Spec => []NoListCutShort
<1>1. Init => NoListCutShort BY DEF Init, NoListCutShort
<1>2. RunInv /\ NoListCutShort /\ [Next]_vars => NoListCutShort'
    <2> SUFFICES ASSUME RunInv, NoListCutShort, [Next]_vars, status' = "answered"
                 PROVE  \A s \in Steps' : result'[s].draft => report'.page = s
        BY DEF NoListCutShort
    <2>1. CASE UNCHANGED <<run, report>> /\ status = "answered"
        BY <2>1 DEF run, NoListCutShort, Steps
    <2>2. CASE UNCHANGED run /\ ~Unpublishable /\ Published
        <3>1. plan' = plan /\ result' = result /\ Asked = 0
            BY <2>2, <2>1 DEF run, Published
        <3>2. Drafts = {s \in Steps : result[s].draft} BY <3>1 DEF Drafts
        <3>3. IsFiniteSet(Drafts) BY <3>2, StepsFinite DEF RunInv, TypeOK
        <3>4. Cardinality(Drafts) <= 1
            <4>1. Cardinality(Drafts) \in Nat BY <3>3, FS_CardinalityType
            <4> QED BY <2>2, <4>1 DEF Unpublishable
        <3>5. ASSUME NEW s \in Steps, result[s].draft PROVE report'.page = s
            <4>1. s \in Drafts BY <3>2, <3>5
            <4>2. Min(Drafts) \in Drafts BY <4>1, DraftsTyped DEF RunInv
            <4>3. Min(Drafts) = s BY <3>3, <3>4, <4>1, <4>2, AtMostOne
            <4> QED BY <2>2, <4>1, <4>3 DEF Published
        <3> QED BY <3>1, <3>5 DEF Steps
    <2> QED BY <2>1, <2>2, ReportSteps
<1> QED BY <1>1, <1>2, RunInvariant, PTL DEF Spec

(***************************************************************************)
(* What is left out                                                        *)
(***************************************************************************)

(* A blocked step needs, at some distance, a step that failed or ranked     *)
(* nothing itself.                                                         *)
Roots(s) == (ReverseClosure(plan, {s}) \ {s}) \cap (FailedOrBlocked \ blocked)

RootInv == \A s \in blocked : Roots(s) # {}

(* What a predecessor needs, the step needs. *)
LEMMA ClosureDeepens ==
    ASSUME NEW p, NEW s \in Positions(p), NEW t \in StepDependencies(p[s]) \cap Positions(p)
    PROVE  /\ s \in ReverseClosure(p, {s}) /\ t \in ReverseClosure(p, {s})
           /\ ReverseClosure(p, {t}) \subseteq ReverseClosure(p, {s})
<1>1. s \in ReverseClosure(p, {s}) BY DEF ReverseClosure
<1>2. t \in ReverseClosure(p, {s}) BY <1>1, ClosureHolds
<1>3. ASSUME NEW u \in ReverseClosure(p, {t}) PROVE u \in ReverseClosure(p, {s})
    <2>1. SUFFICES ASSUME NEW closed \in SUBSET Positions(p), {s} \subseteq closed,
                          \A v \in closed : StepDependencies(p[v]) \cap Positions(p) \subseteq closed
                   PROVE  u \in closed
        BY <1>3 DEF ReverseClosure
    <2>2. {t} \subseteq closed BY <2>1
    <2> QED BY <1>3, <2>1, <2>2 DEF ReverseClosure
<1> QED BY <1>1, <1>2, <1>3

(* What failed stays failed while other steps run. *)
LEMMA RecordRoots ==
    ASSUME RunInv, RootInv, NEW s \in Steps, Runnable(s), NEW r, Record(s, r)
    PROVE  RootInv'
<1>1. /\ plan' = plan /\ blocked' = blocked /\ Steps' = Steps
      /\ result' = [result EXCEPT ![s] = r]
    BY DEF Record, Steps
<1>2. ~Ran(s) BY NextIsOpen DEF Runnable
<1>3. ASSUME NEW t \in FailedOrBlocked \ blocked PROVE t \in FailedOrBlocked' \ blocked'
    <2>1. t \in Steps /\ t # s BY <1>2 DEF FailedOrBlocked, Ran, Failures
    <2>2. result'[t] = result[t] BY <1>1, <2>1 DEF RunInv, TypeOK
    <2> QED BY <1>1, <2>2 DEF FailedOrBlocked
<1> QED BY <1>1, <1>3 DEF RootInv, Roots

(* A step is blocked by a failed predecessor or by what blocked that.       *)
LEMMA BlockRoots ==
    ASSUME RunInv, RootInv, NEW s \in Steps, Block(s)
    PROVE  RootInv'
<1>1. /\ plan' = plan /\ result' = result /\ Steps' = Steps
      /\ blocked' = blocked \cup {s}
    BY DEF Block, Steps
<1>2. ~Ran(s) BY NextIsOpen DEF Block
<1>3. s \notin FailedOrBlocked \ blocked BY <1>2 DEF FailedOrBlocked, Ran, Failures
<1>4. FailedOrBlocked' \ blocked' = FailedOrBlocked \ blocked
    BY <1>1, <1>3 DEF FailedOrBlocked
<1>5. PICK t \in StepDependencies(plan[s]) : t \in FailedOrBlocked BY DEF Block
<1>6. t \in Steps /\ t # s BY <1>5, EarlierInputs DEF RunInv, TypeOK, Steps
<1>7. /\ t \in ReverseClosure(plan, {s})
      /\ ReverseClosure(plan, {t}) \subseteq ReverseClosure(plan, {s})
    BY <1>5, <1>6, ClosureDeepens DEF Steps
<1>8. Roots(s) # {}
    <2>1. CASE t \in blocked
        <3>1. PICK u : u \in Roots(t) BY <2>1 DEF RootInv
        <3>2. u # s BY <1>3, <3>1 DEF Roots
        <3> QED BY <1>7, <3>1, <3>2 DEF Roots
    <2>2. CASE t \notin blocked BY <1>5, <1>6, <1>7, <2>2 DEF Roots
    <2> QED BY <2>1, <2>2
<1>9. \A u : Roots(u)' = Roots(u) BY <1>1, <1>4 DEF Roots
<1> QED BY <1>1, <1>8, <1>9 DEF RootInv

LEMMA NextRoots == RunInv /\ RootInv /\ [Next]_vars => RootInv'
<1> SUFFICES ASSUME RunInv, RootInv, [Next]_vars PROVE RootInv'
    OBVIOUS
<1>1. ASSUME NEW s \in Steps, Step(s) PROVE RootInv'
    <2>1. CASE Block(s) BY <2>1, BlockRoots
    <2>2. ASSUME Runnable(s), NEW r, Record(s, r) PROVE RootInv' BY <2>2, RecordRoots
    <2>3. CASE Query(s) BY <2>2, <2>3 DEF Query
    <2>4. CASE Search(s) BY <2>2, <2>4 DEF Search
    <2>5. CASE RefuseArguments(s) BY <2>2, <2>5 DEF RefuseArguments
    <2>6. CASE NormalizePeriod(s) BY <2>2, <2>6 DEF NormalizePeriod
    <2>7. CASE Count(s) BY <2>2, <2>7 DEF Count
    <2>8. CASE Rank(s) BY <2>2, <2>8 DEF Rank
    <2> QED BY <1>1, <2>1, <2>3, <2>4, <2>5, <2>6, <2>7, <2>8 DEF Step
<1>2. CASE UNCHANGED run
    BY <1>2 DEF run, RootInv, Roots, FailedOrBlocked, Steps
<1>3. ASSUME NEW step, Restart(step) PROVE RootInv' BY <1>3 DEF Restart, RootInv
<1>4. CASE Raise \/ Conclude \/ UNCHANGED vars
    BY <1>2, <1>4 DEF Raise, Conclude, vars, run
<1>5. CASE Choose \/ Narrow BY <1>2, <1>3, <1>5 DEF Choose, Narrow
<1> QED BY <1>1, <1>4, <1>5 DEF Next, Execute

LEMMA RootInvariant == Spec => []RootInv
<1>1. Init => RootInv BY DEF Init, RootInv
<1> QED BY <1>1, RunInvariant, NextRoots, PTL DEF Spec

(* A required step that a run leaves out needs one that failed or ranked    *)
(* nothing, unless the run was stopped: execute blocks descendants only and *)
(* goes through the other branches.                                        *)
THEOREM OnlyFailuresLeaveOut == Spec => []OnlyFailuresBlock
<1>1. Init => OnlyFailuresBlock BY DEF Init, OnlyFailuresBlock
<1>2. RunInv /\ RootInv /\ OnlyFailuresBlock /\ [Next]_vars => OnlyFailuresBlock'
    <2> SUFFICES ASSUME RunInv, RootInv, OnlyFailuresBlock, [Next]_vars
                 PROVE  OnlyFailuresBlock'
        OBVIOUS
    <2>1. CASE status' \in {"running", "raised"} BY <2>1 DEF OnlyFailuresBlock
    <2>2. CASE UNCHANGED run /\ status' = status
        BY <2>2 DEF run, OnlyFailuresBlock, Required, Ran, FailedOrBlocked, Steps
    <2>3. CASE UNCHANGED run /\ Candidates = {}
        <3>1. ASSUME ~stopAll, NEW s \in Required, ~Ran(s)
              PROVE  \E t \in ReverseClosure(plan, {s}) \ {s} : t \in FailedOrBlocked \ blocked
            <4>1. ~Open(s) BY <2>3, <3>1 DEF Candidates
            <4>2. s \in blocked BY <3>1, <4>1 DEF Open
            <4> QED BY <4>2 DEF RootInv, Roots
        <3>2. /\ plan' = plan /\ result' = result /\ blocked' = blocked /\ stopAll' = stopAll
            BY <2>3 DEF run
        <3>3. Required' = Required /\ FailedOrBlocked' = FailedOrBlocked
            BY <3>2 DEF Required, FailedOrBlocked, Steps
        <3> QED BY <3>1, <3>2, <3>3 DEF OnlyFailuresBlock, Ran
    <2> QED BY <2>1, <2>2, <2>3, ReportSteps
<1> QED BY <1>1, <1>2, RunInvariant, RootInvariant, PTL DEF Spec
=============================================================================
