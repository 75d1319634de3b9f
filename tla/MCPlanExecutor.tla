--------------------------- MODULE MCPlanExecutor ---------------------------
(* Plans for TLC: every accepted plan of two steps over a few shapes, and   *)
(* longer ones built the way the planner composes resolvers, lists, ranks,  *)
(* counts and periods.                                                      *)
EXTENDS PlanExecutor

DataSkill(shape, resolver, paged, truncation, empty) ==
    [source |-> "data", shape |-> shape, resolver |-> resolver, paged |-> paged,
     truncation |-> truncation, empty |-> empty]

Resolver == DataSkill("many", TRUE, TRUE, "page", "not_found")
List == DataSkill("many", FALSE, TRUE, "page", "no_rows")
Partial == DataSkill("many", FALSE, TRUE, "partial", "no_rows")
Whole == DataSkill("many", FALSE, FALSE, "error", "no_rows")
Total == DataSkill("aggregate", FALSE, FALSE, "error", "forbidden")
Card == DataSkill("one", FALSE, FALSE, "error", "not_found")
Help == [List EXCEPT !.source = "help", !.paged = FALSE]

Plain(kind, skill) ==
    [kind |-> kind, reads |-> {}, slots |-> {}, input |-> 0, skill |-> skill,
     final |-> "none", wants |-> "many", stop |-> FALSE, ties |-> FALSE]

Call(skill, reads) == [Plain("call", skill) EXCEPT !.reads = reads]
Over(kind, input) == [Plain(kind, List) EXCEPT !.input = input, !.wants = "one"]
Period == [Plain("period", List) EXCEPT !.wants = "one"]
Final(step, wants) == [step EXCEPT !.final = "required", !.wants = wants]
Extra(step, wants) == [step EXCEPT !.final = "optional", !.wants = wants]
Stopping(step) == [step EXCEPT !.stop = TRUE]

One(s) == <<s, "one">>
Many(s) == <<s, "many">>

(* Two resolvers settle on one object each for one list. *)
TwoResolvers ==
    <<Stopping(Call(Resolver, {})), Call(Resolver, {}), Final(Call(List, {One(1), One(2)}), "many")>>

(* The list of a period. *)
ListOfPeriod == <<Period, Final(Stopping(Call(List, {One(1)})), "many")>>

LongPlans ==
    { TwoResolvers, ListOfPeriod,
      \* a required list and an optional one
      <<Final(Call(List, {}), "many"), Extra(Call(List, {}), "many")>>,
      \* the best of the candidates, then its list
      <<Call(Resolver, {}), [Over("rank", 1) EXCEPT !.ties = TRUE],
        Final(Call(List, {One(2)}), "many")>>,
      \* a set of objects, the whole list over it and how many rows it has
      <<Call(Resolver, {}), Call(Whole, {Many(1)}), Final(Over("count", 2), "one")>>,
      \* an exact object, its card and an optional total
      <<Stopping(Call(Resolver, {})), Final(Call(Card, {One(1)}), "one"),
        Extra(Call(Total, {One(1)}), "one")>>,
      \* two required answers that do not need each other
      <<Final(Call(Resolver, {}), "many"), Call(Resolver, {}),
        Final(Call(Total, {One(2)}), "one")>>,
      \* a list over two resolvers, the first of which may end the run
      <<Stopping(Call(Resolver, {})), Call(List, {}),
        Final(Call(Resolver, {Many(1), Many(2)}), "one")>>,
      \* data and the help
      <<Final(Call(Partial, {}), "many"), Final(Stopping(Call(Help, {})), "many"),
        Extra(Over("calculate", 1), "one")>>,
      \* a list next to the best of the candidates
      <<Final(Call(List, {}), "many"), Call(Resolver, {}), Final(Over("rank", 2), "one")>>,
      \* a step reached through a slot
      <<Final(Call(Resolver, {}), "many"),
        Final([Call(List, {}) EXCEPT !.slots = {Many(1)}], "many")>> }

Shapes ==
    {Call(Partial, {}), Final(Call(Card, {Many(1)}), "one"),
     Final(Call(Resolver, {}), "one"), Call(Resolver, {}), Final(Call(Help, {}), "many"),
     Stopping(Final(Call(List, {}), "many")), Extra(Call(Partial, {}), "many"),
     Final(Call(Whole, {Many(1)}), "many"), Extra(Call(Card, {One(1)}), "one"),
     Final(Over("count", 1), "one"), Extra(Over("rank", 1), "many"), Period}

ShortPlans == {p \in [1 .. 2 -> Shapes] : PlanAccepted(p)}

AllPlans == LongPlans \cup ShortPlans
AskingPlans == {TwoResolvers}
=============================================================================
