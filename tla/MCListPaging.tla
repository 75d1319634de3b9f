---------------------------- MODULE MCListPaging ----------------------------
(* Skills for TLC: every sort over the two facts, in both directions, with  *)
(* every ORDER BY, and cursor predicates that are right or wrong in one     *)
(* comparison; the prefix skills keep the order they declare or do not.     *)
EXTENDS ListPaging

Item(fact, dir) == [fact |-> fact, dir |-> dir]

Sorts ==
    {<<Item("id", d)>> : d \in Directions}
    \cup {<<Item("key", d), Item("id", e)>> : d, e \in Directions}
    \cup {<<Item("key", "asc")>>}

FactsOf(sort) == [i \in DOMAIN sort |-> sort[i].fact]

Compare(fact, op, n) == [fact |-> fact, op |-> op, cursor |-> n]

(* The predicate of a sort, with operators of its own. *)
Predicate(sort, equal, last) ==
    [n \in DOMAIN sort |->
        [j \in 1 .. n |-> Compare(sort[j].fact, IF j < n THEN equal ELSE last[n], j)]]

(* WHERE with the rows of `rest` satisfying the rest of it, joined to the   *)
(* cursor part in some way.                                                *)
WhereOf(join, rest) ==
    [row \in Rows \X Keys |->
        CASE join = "and" -> IF row \in rest THEN "part" ELSE "none"
          [] join = "or" -> IF row \in rest THEN "all" ELSE "part"
          [] join = "and_not" -> IF row \in rest THEN "not_part" ELSE "none"
          [] OTHER -> IF row \in rest THEN "all" ELSE "not_part"]

Everything == Rows \X Keys

(* No filter, and one that hides a row by its identity and its key. *)
Rests == {Everything, Everything \ {<<2, 1>>}}

KeysetSkills ==
    {[strategy |-> "keyset", sort |-> sort, cursors |-> FactsOf(sort), order |-> order,
      guarded |-> guarded, branches |-> Predicate(sort, equal, last),
      where |-> WhereOf("and", rest), top |-> FALSE] :
        sort \in Sorts, order \in Sorts, guarded \in BOOLEAN, equal \in {"=", "<="},
        last \in [1 .. 2 -> {"<", ">", "<=", ">="}], rest \in Rests}

PrefixSkills ==
    {[strategy |-> "prefix", sort |-> sort, cursors |-> <<>>, order |-> order,
      guarded |-> TRUE, branches |-> <<>>, where |-> WhereOf("and", rest), top |-> FALSE] :
        sort \in Sorts, order \in Sorts, rest \in Rests}

(* Queries whose rest of WHERE is joined by AND. *)
AllSkills == KeysetSkills \cup PrefixSkills

(* The accepted keyset queries again, with their cursor part under OR or    *)
(* NOT: the validator accepts these too.                                   *)
LaxWhereSkills ==
    {[s EXCEPT !.where = WhereOf(join, rest)] :
        s \in {k \in KeysetSkills : SkillAccepted(k)},
        join \in {"or", "and_not", "or_not"}, rest \in Rests}
=============================================================================
