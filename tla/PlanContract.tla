---------------------------- MODULE PlanContract ----------------------------
(***************************************************************************)
(* What the semantic validator says of an execute plan before any step     *)
(* runs (contracts/semantic.py: plan_issues, build_plan_coverage_proof)    *)
(* and what the executor derives from the plan alone (execution.py:        *)
(* _derive_resolver_use_proofs, _derive_rank_selection_specs).             *)
(*                                                                         *)
(* A plan is a sequence of steps.  A step names its predecessors by their  *)
(* positions: `reads` are the step bindings of its arguments, `input` the  *)
(* input step of an operator (0: none), `slots` the step bindings it       *)
(* reaches through a slot of the interpretation.  A read is a pair of the  *)
(* position and the cardinality of the binding.  `final` says whether the  *)
(* step owns the final output of a required or an optional requirement     *)
(* and `wants` is the cardinality of that requirement.                     *)
(***************************************************************************)
EXTENDS Naturals, FiniteSets, Sequences

Cardinality1 == {"one", "many"}

(* What of a skill's output contract decides how a step runs. *)
Skills ==
    [source: {"data", "help"},
     shape: {"many", "one", "aggregate"},
     resolver: BOOLEAN,
     paged: BOOLEAN,
     truncation: {"page", "partial", "error"},
     empty: {"not_found", "no_rows", "forbidden"}]

(* "calculate" stands for the operators no executor implements yet. *)
StepKinds == {"call", "period", "count", "rank", "calculate"}

Reads == SUBSET ((Nat \ {0}) \X Cardinality1)

(* A planned step; a count and a rank always name their input. *)
PlanSteps ==
    {step \in [kind: StepKinds, reads: Reads, slots: Reads, input: Nat, skill: Skills,
               final: {"none", "required", "optional"}, wants: Cardinality1,
               stop: BOOLEAN, ties: BOOLEAN] :
        step.kind \in {"count", "rank"} => step.input # 0}

Positions(plan) == DOMAIN plan

IsCall(step) == step.kind = "call"

IsResolver(step) == IsCall(step) /\ step.skill.resolver

(* The predecessors of a step: its step bindings and its operator input. *)
(* A binding behind a slot is not among them.                            *)
StepDependencies(step) ==
    {read[1] : read \in step.reads} \cup ({step.input} \ {0})

(* The steps that some root needs: the least set that holds the roots and *)
(* with every step its predecessors.                                      *)
ReverseClosure(plan, roots) ==
    {s \in Positions(plan) :
        \A closed \in SUBSET Positions(plan) :
            /\ roots \subseteq closed
            /\ \A t \in closed :
                  StepDependencies(plan[t]) \cap Positions(plan) \subseteq closed
            => s \in closed}

(* collection_scope_for_skill: whether a result may count as the whole set. *)
SkillScope(skill) ==
    IF /\ skill.source = "data"
       /\ \/ skill.shape = "aggregate"
          \/ ~skill.paged /\ skill.truncation # "page"
    THEN "complete_set" ELSE "visible_page"

(* What a requirement asks of the collection its final fact comes from. *)
SkillObligation(skill) ==
    CASE skill.shape = "aggregate" -> "complete_set"
      [] skill.shape = "one" -> "fact"
      [] skill.shape = "many" /\ skill.truncation = "page" -> "visible_page"
      [] OTHER -> "complete_set"

StepObligation(step) ==
    CASE step.kind = "call" -> SkillObligation(step.skill)
      [] step.kind = "period" -> "fact"
      [] OTHER -> "complete_set"

(* Whether the requirement of a final output matches what its step proves: *)
(* the cardinalities agree, except that a resolver may settle on one, and  *)
(* a count is a total only over a whole set.                               *)
FinalMatches(plan, s) ==
    LET step == plan[s]
        OneOf(skill) ==
            IF skill.shape = "many" THEN {"many"} \cup (IF skill.resolver THEN {"one"} ELSE {})
            ELSE {"one"}
    IN  CASE step.kind = "call" -> step.wants \in OneOf(step.skill)
          [] step.kind = "rank" ->
                /\ IsCall(plan[step.input])
                /\ step.wants \in OneOf(plan[step.input].skill)
          [] step.kind = "count" ->
                /\ step.wants = "one"
                /\ IsCall(plan[step.input])
                /\ SkillScope(plan[step.input].skill) = "complete_set"
          [] OTHER -> step.wants = "one"

Finals(plan, criticality) ==
    {s \in Positions(plan) : plan[s].final = criticality /\ FinalMatches(plan, s)}

RequiredSteps(plan) == ReverseClosure(plan, Finals(plan, "required"))

(* plan_issues finds nothing: predecessors come earlier, every final output *)
(* covers its requirement, there is a required one, and every step serves a *)
(* final output.                                                            *)
PlanAccepted(plan) ==
    /\ \A s \in Positions(plan) :
          /\ StepDependencies(plan[s]) \subseteq 1 .. (s - 1)
          /\ plan[s].final # "none" => FinalMatches(plan, s)
    /\ Finals(plan, "required") # {}
    /\ ReverseClosure(plan, {s \in Positions(plan) : plan[s].final # "none"})
         = Positions(plan)

(***************************************************************************)
(* Resolver uses                                                           *)
(***************************************************************************)

(* The cardinalities with which later calls read the identity of step s and *)
(* a required final output that settles on one.                             *)
DirectUses(plan, s) ==
    {card \in Cardinality1 :
        \E t \in Positions(plan) : IsCall(plan[t]) /\ <<s, card>> \in plan[t].reads}
    \cup (IF plan[s].final = "required" /\ plan[s].wants = "one" THEN {"one"} ELSE {})

(* _derive_rank_selection_specs: a rank over a resolver that settles on one. *)
IsRankSelector(plan, s) ==
    /\ plan[s].kind = "rank"
    /\ IsResolver(plan[plan[s].input])
    /\ "one" \in DirectUses(plan, s)

SelectorsOf(plan, source) ==
    {s \in Positions(plan) : IsRankSelector(plan, s) /\ plan[s].input = source}

IsRankSource(plan, s) == SelectorsOf(plan, s) # {}

(* _derive_resolver_use_proofs raises no conflict. *)
UsesAgree(plan) ==
    \A s \in Positions(plan) : IsResolver(plan[s]) =>
        /\ Cardinality(SelectorsOf(plan, s)) <= 1
        /\ IsRankSource(plan, s) => DirectUses(plan, s) = {}
        /\ Cardinality(DirectUses(plan, s)) <= 1

Mode(plan, s) ==
    IF ~IsResolver(plan[s]) THEN "none"
    ELSE IF IsRankSource(plan, s) \/ DirectUses(plan, s) = {"one"} THEN "select_one"
    ELSE IF DirectUses(plan, s) = {"many"} THEN "select_set"
    ELSE "display_only"
=============================================================================
