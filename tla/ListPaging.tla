----------------------------- MODULE ListPaging -----------------------------
(***************************************************************************)
(* A list shown page by page while 1C changes it (execution.py:            *)
(* _page_request, _execute_data, _continuation_values,                     *)
(* execute_continuation) by a query the skill validator has accepted       *)
(* (contracts/semantic.py: _data_operation_issues, contracts/query.py:     *)
(* inspect_keyset_query_contract).                                         *)
(*                                                                         *)
(* A row is its immutable identity; the table gives each row that is       *)
(* present the value of its one other sort fact.  A skill declares how it  *)
(* pages and sorts; its query is the ORDER BY, the cursor part of WHERE as *)
(* a disjunction of conjunctions of comparisons, what the rest of WHERE    *)
(* makes of that part for each row, and whether a TOP cuts it.  One action *)
(* is one turn's request to 1C, or one change in 1C.                       *)
(***************************************************************************)
EXTENDS Naturals, Sequences, FiniteSets, Functions

CONSTANTS
    Rows,       \* identities, ordered as numbers
    Keys,       \* values of the other sort fact
    Skills,     \* declared paging contracts with their queries
    PageSize,   \* min(default_list_limit, mcp_limit.maximum - 1)
    Maximum,    \* mcp_limit.maximum
    MaxTotal,   \* prefix: maximum_total
    MaxChanges  \* bound: changes in 1C

VARIABLES
    skill,      \* the skill of the list
    table,      \* rows present in 1C, with their keys
    cursor,     \* sort tuple of the last row shown
    shown,      \* rows shown so far
    times,      \* how often each row was shown
    steady,     \* rows of the list, unchanged since the first request
    phase,      \* "new", "more", "end" or "error"
    changes     \* changes so far

Facts == {"key", "id"}
Directions == {"asc", "desc"}
Operators == {"=", "<", ">", "<=", ">="}

SortItem == [fact: Facts, dir: Directions]
Comparison == [fact: Facts, op: Operators, cursor: Nat \ {0}]

(* WHERE as a whole, for a row with a key: the rest of it leaves the choice *)
(* to the cursor part ("part", as under AND), turns it round ("not_part"),  *)
(* or has chosen already ("all" as a true operand of OR or another member   *)
(* of a UNION has, "none" as a false one of AND).                           *)
Wheres == [Rows \X Keys -> {"part", "not_part", "all", "none"}]

SkillContracts ==
    [strategy: {"keyset", "prefix"}, sort: Seq(SortItem) \ {<<>>}, cursors: Seq(Facts),
     order: Seq(SortItem), guarded: BOOLEAN, branches: Seq(Seq(Comparison)),
     where: Wheres, top: BOOLEAN]

PagingAssumption ==
    /\ Rows \subseteq Nat
    /\ Keys \subseteq Nat
    /\ Skills \subseteq SkillContracts
    /\ PageSize \in Nat \ {0}
    /\ Maximum \in Nat /\ PageSize < Maximum
    /\ MaxTotal \in Nat \ {0}
    /\ MaxChanges \in Nat

ASSUME PagingAssumption

vars == <<skill, table, cursor, shown, times, steady, phase, changes>>

(***************************************************************************)
(* What the validator accepts                                              *)
(***************************************************************************)

(* Distinct sort facts, one cursor for each in the same order, and the     *)
(* immutable identity of the row at the end.                               *)
SortDeclared(s) ==
    /\ \A i, j \in DOMAIN s.sort : s.sort[i].fact = s.sort[j].fact => i = j
    /\ s.cursors = [i \in DOMAIN s.sort |-> s.sort[i].fact]
    /\ s.sort[Len(s.sort)].fact = "id"

OrderMatches(s) == s.order = s.sort

Strict(dir) == IF dir = "asc" THEN ">" ELSE "<"

LaxPredicateMatches(s) ==
    /\ s.guarded
    /\ DOMAIN s.branches = DOMAIN s.sort
    /\ \A n \in DOMAIN s.sort :
          /\ DOMAIN s.branches[n] = 1 .. n
          /\ \A j \in 1 .. n :
                /\ s.branches[n][j].fact = s.sort[j].fact
                /\ s.branches[n][j].cursor = j
                /\ s.branches[n][j].op \in
                      (IF j < n THEN {"="} ELSE {Strict(s.sort[n].dir), "<=", ">="})

(* _keyset_predicate_matches of the part of WHERE that                      *)
(* _keyset_cursor_predicate_tokens finds: NOT has_cursor, or the first      *)
(* n - 1 sort facts equal their cursors and the n-th is strictly after its  *)
(* own.  What surrounds that part is not looked at.                         *)
PredicateMatches(s) ==
    /\ s.guarded
    /\ DOMAIN s.branches = DOMAIN s.sort
    /\ \A n \in DOMAIN s.sort :
          /\ DOMAIN s.branches[n] = 1 .. n
          /\ \A j \in 1 .. n :
                s.branches[n][j] =
                    [fact |-> s.sort[j].fact, cursor |-> j,
                     op |-> IF j < n THEN "=" ELSE Strict(s.sort[n].dir)]

(* A prefix query is not looked into: stable_order_fact_ids is taken at its *)
(* word.  Of no query is s.where looked at.                                 *)
SkillAccepted(s) ==
    /\ Maximum >= 2
    /\ s.strategy = "keyset" =>
          SortDeclared(s) /\ OrderMatches(s) /\ PredicateMatches(s) /\ ~s.top

(***************************************************************************)
(* What 1C answers                                                         *)
(***************************************************************************)
Present == DOMAIN table

Fact(r, fact) == IF fact = "id" THEN r ELSE table[r]

SortTuple(r) == [i \in DOMAIN skill.sort |-> Fact(r, skill.sort[i].fact)]

(* Tuple u comes before tuple v in the declared order. *)
Precedes(sort, u, v) ==
    \E i \in DOMAIN sort :
        /\ IF sort[i].dir = "asc" THEN u[i] < v[i] ELSE v[i] < u[i]
        /\ \A j \in 1 .. (i - 1) : u[j] = v[j]

OrderTuple(r) == [i \in DOMAIN skill.order |-> Fact(r, skill.order[i].fact)]

Before(q, r) == Precedes(skill.order, OrderTuple(q), OrderTuple(r))

Holds(op, a, b) ==
    CASE op = "=" -> a = b
      [] op = "<" -> a < b
      [] op = ">" -> a > b
      [] op = "<=" -> a <= b
      [] OTHER -> a >= b

(* The cursor part with the cursor's values; a first page has no cursor. *)
CursorPart(r, continued) ==
    IF continued
    THEN \E n \in DOMAIN skill.branches :
            \A j \in DOMAIN skill.branches[n] :
                LET c == skill.branches[n][j]
                IN  Holds(c.op, Fact(r, c.fact), cursor[c.cursor])
    ELSE skill.guarded

(* What the rest of WHERE makes of the cursor part for the row as it is. *)
Where(r) == skill.where[<<r, table[r]>>]

Selected(continued) ==
    {r \in Present :
        \/ Where(r) = "all"
        \/ Where(r) = "part" /\ CursorPart(r, continued)
        \/ Where(r) = "not_part" /\ ~CursorPart(r, continued)}

(* The rows of the list: those the query selects without a cursor. *)
Listed == {r \in Present : Where(r) \in {"part", "all"}}

(* The rows sent for a request of at most `limit`: in order, all of them or *)
(* as many as the limit allows.                                             *)
IsAnswer(reply, rows, limit) ==
    /\ \A i, j \in DOMAIN reply : reply[i] = reply[j] => i = j
    /\ \A i, j \in DOMAIN reply : i < j => ~Before(reply[j], reply[i])
    /\ \A r \in rows \ Range(reply) :
          Len(reply) = limit /\ \A i \in DOMAIN reply : ~Before(r, reply[i])

(***************************************************************************)
(* Requests                                                                *)
(***************************************************************************)
Continued == phase = "more"

Smallest(S) == CHOOSE x \in S : \A y \in S : x <= y

BadRequestLimit ==
    IF skill.strategy = "keyset" THEN PageSize
    ELSE Smallest({shown + PageSize, MaxTotal, Maximum})

(* _page_request: one row more than the page shows. *)
RequestLimit ==
    IF skill.strategy = "keyset" THEN PageSize + 1
    ELSE Smallest({shown + PageSize + 1, MaxTotal, Maximum})

RowsAskedFor == IF skill.strategy = "keyset" THEN Selected(Continued) ELSE Listed

(* A prefix request sends what was shown again; it is skipped. *)
Skip == IF skill.strategy = "keyset" THEN 0 ELSE shown

Fail ==
    /\ phase' = "error"
    /\ UNCHANGED <<skill, table, cursor, shown, times, steady, changes>>

(* The declared total is already shown: nothing is asked. *)
Exhausted ==
    /\ phase \in {"new", "more"}
    /\ skill.strategy = "prefix" /\ RequestLimit <= shown
    /\ Fail

(* CONTINUATION_PREFIX_DRIFT: fewer rows than were shown, another row where *)
(* the last one shown was, or nothing after it.                             *)
Drifted(reply) ==
    /\ Continued
    /\ \/ Skip > Len(reply)
       \/ Skip > 0 /\ SortTuple(reply[Skip]) # cursor
       \/ Len(reply) = Skip

(* has_more: a probe row, or the envelope says so; the adapter infers it    *)
(* from a full answer where 1C does not say.                                *)
MoreSaid(reply) ==
    {Range(reply) # RowsAskedFor, Len(reply) = RequestLimit}

ShownRows(reply) ==
    {reply[i] : i \in {n \in DOMAIN reply : Skip < n /\ n <= Skip + PageSize}}

LastShown(reply) ==
    reply[IF Len(reply) <= Skip + PageSize THEN Len(reply) ELSE Skip + PageSize]

BadShowPage(reply) ==
    /\ \E said \in MoreSaid(reply) :
          phase' = IF said \/ Len(reply) > Skip + PageSize THEN "more" ELSE "end"
    /\ shown' = shown + Cardinality(ShownRows(reply))
    /\ times' = [r \in Rows |-> times[r] + IF r \in ShownRows(reply) THEN 1 ELSE 0]
    /\ steady' = IF Continued THEN steady ELSE Listed
    /\ UNCHANGED <<skill, table, cursor, changes>>

ShowPage(reply) ==
    /\ \E said \in MoreSaid(reply) :
          IF said \/ Len(reply) > Skip + PageSize
          THEN phase' = "more" /\ cursor' = SortTuple(LastShown(reply))
          ELSE phase' = "end" /\ cursor' = cursor
    /\ shown' = shown + Cardinality(ShownRows(reply))
    /\ times' = [r \in Rows |-> times[r] + IF r \in ShownRows(reply) THEN 1 ELSE 0]
    /\ steady' = IF Continued THEN steady ELSE Listed
    /\ UNCHANGED <<skill, table, changes>>

(* The first request, or that of the page handle. *)
Request ==
    /\ phase \in {"new", "more"}
    /\ skill.strategy = "prefix" => RequestLimit > shown
    /\ \E n \in 0 .. RequestLimit : \E reply \in [1 .. n -> RowsAskedFor] :
          /\ IsAnswer(reply, RowsAskedFor, RequestLimit)
          /\ IF Drifted(reply) THEN Fail ELSE ShowPage(reply)

(***************************************************************************)
(* 1C changes                                                              *)
(***************************************************************************)

(* A row appears, goes, or gets another key. *)
Change(r) ==
    /\ changes < MaxChanges
    /\ \/ \E k \in Keys :
             table' = [q \in Present \cup {r} |-> IF q = r THEN k ELSE table[q]]
       \/ r \in Present /\ table' = [q \in Present \ {r} |-> table[q]]
    /\ table' # table
    /\ steady' = steady \ {r}
    /\ changes' = changes + 1
    /\ UNCHANGED <<skill, cursor, shown, times, phase>>

(***************************************************************************)
(* The specification                                                       *)
(***************************************************************************)
Tables == UNION {[present -> Keys] : present \in SUBSET Rows}

Init ==
    /\ skill \in {s \in Skills : SkillAccepted(s)}
    /\ table \in Tables
    /\ cursor = <<>>
    /\ shown = 0
    /\ times = [r \in Rows |-> 0]
    /\ steady = {}
    /\ phase = "new"
    /\ changes = 0

Next == Request \/ Exhausted \/ \E r \in Rows : Change(r)

Spec == Init /\ [][Next]_vars

(***************************************************************************)
(* Properties                                                              *)
(***************************************************************************)

(* The variables have their types, what counts as steady is in the list,    *)
(* and a list that goes on knows where.                                    *)
TypeOK ==
    /\ skill \in Skills
    /\ Present \subseteq Rows /\ Range(table) \subseteq Keys
    /\ steady \subseteq Listed
    /\ shown \in Nat /\ times \in [Rows -> Nat] /\ changes \in 0 .. MaxChanges
    /\ phase \in {"new", "more", "end", "error"}
    /\ phase = "more" => DOMAIN cursor = DOMAIN skill.sort

(* What the validator leaves to the author of the skill: a keyset query has *)
(* its cursor part and the rest of WHERE joined by AND, a prefix query      *)
(* sorts by the declared facts and these end with the identity of the row.  *)
QueryKept ==
    IF skill.strategy = "keyset"
    THEN \A row \in Rows \X Keys : skill.where[row] \in {"part", "none"}
    ELSE OrderMatches(skill) /\ skill.sort[Len(skill.sort)].fact = "id"

(* If the author kept to that, then however 1C changes between the pages, a *)
(* row of the list that is there all along with its key unchanged is shown  *)
(* once, and has been shown when the list ends.  This rests on the accepted *)
(* cursor part and order, on the probe row and on the cursor of the last    *)
(* visible row together (_keyset_predicate_matches, _page_request,          *)
(* _continuation_values).                                                  *)
PagesAddUp ==
    QueryKept =>
        \A r \in steady :
            /\ times[r] <= 1
            /\ phase = "end" => times[r] = 1

(* Under the same condition, while nothing changes no list repeats a row,   *)
(* none ends before its last row, and none fails but a prefix of which all  *)
(* that may be asked for has been shown (the probe row and the envelope's   *)
(* has_more may disagree at the boundary of a page).                       *)
QuietListIsWhole ==
    QueryKept /\ changes = 0 =>
        /\ \A r \in Rows : times[r] <= 1
        /\ phase = "end" => \A r \in Listed : times[r] = 1
        /\ phase = "error" =>
              skill.strategy = "prefix" /\ shown = Smallest({MaxTotal, Maximum})

(* docs/testing/slice2_acceptance_contract.md, rule 7: the cursor filter of *)
(* an accepted keyset query is equivalent to one guarded, strict after-     *)
(* predicate.  Then no row that stays as it is could come twice.  The code  *)
(* compares only the part that holds the cursor's parameters                *)
(* (_keyset_cursor_predicate_tokens), not how WHERE uses it.               *)
AcceptedListsRepeatNothing ==
    skill.strategy = "keyset" => \A r \in steady : times[r] <= 1
=============================================================================
