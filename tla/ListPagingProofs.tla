-------------------------- MODULE ListPagingProofs --------------------------
(***************************************************************************)
(* For every set of rows, keys and skills, every page size and any changes *)
(* in 1C: the pages of a list add up, if its query joins the cursor part   *)
(* to the rest of WHERE by AND (keyset) or keeps the order it declares     *)
(* (prefix).  That condition is the author's, no check of the code's.      *)
(*                                                                         *)
(* The declared order is a strict total order of the sort tuples, and the  *)
(* identity at its end tells rows apart.  The cursor then cuts the rows    *)
(* that have been there all along into those shown and those to come       *)
(* (CursorCuts), and a page moves it over exactly the rows it shows: what  *)
(* a keyset query leaves out lies before the cursor, what a prefix query   *)
(* repeats is skipped, and what does not fit lies after the last row shown *)
(* (PageCut).                                                              *)
(***************************************************************************)
EXTENDS ListPaging, FiniteSetTheorems, TLAPS

(***************************************************************************)
(* The order                                                               *)
(***************************************************************************)
Tuples(sort) == [DOMAIN sort -> Nat]

(* Some position of two different tuples is the first at which they differ. *)
LEMMA FirstDifference ==
    ASSUME NEW k \in Nat, NEW u \in [1 .. k -> Nat], NEW v \in [1 .. k -> Nat], u # v
    PROVE  \E i \in 1 .. k : u[i] # v[i] /\ \A j \in 1 .. (i - 1) : u[j] = v[j]
<1> DEFINE less == {pair \in Nat \X Nat : pair[1] < pair[2]}
           differ == {i \in 1 .. k : u[i] # v[i]}
<1>1. IsWellFoundedOn(less, Nat) BY NatLessThanWellFounded DEF OpToRel
<1>2. \A x, y \in Nat : y < x => <<y, x>> \in less OBVIOUS
<1>3. differ # {} /\ differ \subseteq Nat OBVIOUS
<1>4. \A i \in 1 .. k : i \notin differ => u[i] = v[i] OBVIOUS
<1>5. \A i \in differ : i \in 1 .. k /\ u[i] # v[i] OBVIOUS
<1> HIDE DEF less, differ
<1>6. \E i \in differ : \A y \in differ : ~(<<y, i>> \in less) BY <1>1, <1>3, WFMin
<1>7. PICK i \in differ : \A y \in differ : ~(<<y, i>> \in less) BY <1>6
<1>8. ASSUME NEW j \in 1 .. (i - 1) PROVE u[j] = v[j]
    <2>1. i \in 1 .. k BY <1>5
    <2>2. j \in Nat /\ i \in Nat /\ j < i /\ j \in 1 .. k BY <2>1
    <2>3. j \notin differ BY <2>2, <1>2, <1>7
    <2> QED BY <2>2, <2>3, <1>4
<1> QED BY <1>5, <1>8

(* Of two different tuples one precedes the other. *)
LEMMA OrderTotal ==
    ASSUME NEW sort \in Seq(SortItem), NEW u \in Tuples(sort), NEW v \in Tuples(sort), u # v
    PROVE  Precedes(sort, u, v) \/ Precedes(sort, v, u)
<1>1. Len(sort) \in Nat /\ DOMAIN sort = 1 .. Len(sort) OBVIOUS
<1>2. u \in [1 .. Len(sort) -> Nat] /\ v \in [1 .. Len(sort) -> Nat] BY <1>1 DEF Tuples
<1>3. PICK i \in 1 .. Len(sort) : u[i] # v[i] /\ \A j \in 1 .. (i - 1) : u[j] = v[j]
    BY <1>1, <1>2, FirstDifference
<1>4. u[i] < v[i] \/ v[i] < u[i] BY <1>2, <1>3
<1>5. \A j \in 1 .. (i - 1) : v[j] = u[j] BY <1>3
<1> QED BY <1>1, <1>3, <1>4, <1>5 DEF Precedes

LEMMA OrderStrict ==
    ASSUME NEW sort \in Seq(SortItem), NEW u \in Tuples(sort)
    PROVE  ~Precedes(sort, u, u)
BY DEF Precedes, Tuples

LEMMA OrderTransitive ==
    ASSUME NEW sort \in Seq(SortItem), NEW u \in Tuples(sort), NEW v \in Tuples(sort),
           NEW w \in Tuples(sort), Precedes(sort, u, v), Precedes(sort, v, w)
    PROVE  Precedes(sort, u, w)
<1>1. Len(sort) \in Nat /\ DOMAIN sort = 1 .. Len(sort) OBVIOUS
<1>2. PICK i \in DOMAIN sort :
            /\ IF sort[i].dir = "asc" THEN u[i] < v[i] ELSE v[i] < u[i]
            /\ \A j \in 1 .. (i - 1) : u[j] = v[j]
    BY DEF Precedes
<1>3. PICK n \in DOMAIN sort :
            /\ IF sort[n].dir = "asc" THEN v[n] < w[n] ELSE w[n] < v[n]
            /\ \A j \in 1 .. (n - 1) : v[j] = w[j]
    BY DEF Precedes
<1>4. i \in Nat /\ n \in Nat /\ i >= 1 /\ n >= 1 BY <1>1, <1>2, <1>3
<1>5. /\ u[i] \in Nat /\ v[i] \in Nat /\ w[i] \in Nat
      /\ u[n] \in Nat /\ v[n] \in Nat /\ w[n] \in Nat
    BY <1>2, <1>3 DEF Tuples
<1>6. CASE i < n
    <2>1. v[i] = w[i] BY <1>3, <1>4, <1>6
    <2>2. \A j \in 1 .. (i - 1) : u[j] = w[j] BY <1>2, <1>3, <1>4, <1>6
    <2> QED BY <1>2, <2>1, <2>2 DEF Precedes
<1>7. CASE n < i
    <2>1. u[n] = v[n] BY <1>2, <1>4, <1>7
    <2>2. \A j \in 1 .. (n - 1) : u[j] = w[j] BY <1>2, <1>3, <1>4, <1>7
    <2> QED BY <1>3, <2>1, <2>2 DEF Precedes
<1>8. CASE i = n
    <2>1. IF sort[i].dir = "asc" THEN u[i] < w[i] ELSE w[i] < u[i]
        BY <1>2, <1>3, <1>5, <1>8
    <2>2. \A j \in 1 .. (i - 1) : u[j] = w[j] BY <1>2, <1>3, <1>8
    <2> QED BY <1>2, <2>1, <2>2 DEF Precedes
<1> QED BY <1>4, <1>6, <1>7, <1>8

(***************************************************************************)
(* Types                                                                   *)
(***************************************************************************)
LEMMA SkillTyped ==
    ASSUME TypeOK
    PROVE  /\ skill \in SkillContracts
           /\ skill.sort \in Seq(SortItem) /\ skill.order \in Seq(SortItem)
           /\ Len(skill.sort) \in Nat \ {0} /\ DOMAIN skill.sort = 1 .. Len(skill.sort)
BY PagingAssumption DEF PagingAssumption, TypeOK, SkillContracts

LEMMA RowTyped ==
    ASSUME TypeOK, NEW r \in Present
    PROVE  r \in Rows /\ r \in Nat /\ table[r] \in Keys /\ table[r] \in Nat
<1>1. table[r] \in Range(table) BY DEF Present, Range
<1> QED BY <1>1, PagingAssumption DEF PagingAssumption, TypeOK

(* What is shown is finite. *)
LEMMA ShownFinite ==
    ASSUME NEW n \in Nat, NEW S, NEW reply \in [1 .. n -> S]
    PROVE  IsFiniteSet(ShownRows(reply)) /\ Cardinality(ShownRows(reply)) \in Nat
<1> DEFINE I == {m \in DOMAIN reply : Skip < m /\ m <= Skip + PageSize}
<1>1. IsFiniteSet(1 .. n) BY FS_Interval
<1>2. I \subseteq 1 .. n OBVIOUS
<1>3. IsFiniteSet(I) BY <1>1, <1>2, FS_Subset
<1> DEFINE f == [i \in I |-> reply[i]]
<1>4. f \in Surjection(I, ShownRows(reply)) BY DEF Surjection, ShownRows
<1>5. IsFiniteSet(ShownRows(reply)) BY <1>3, <1>4, FS_Surjection
<1> QED BY <1>5, FS_CardinalityType

(* The list depends on the skill and the table. *)
LEMMA ListKept ==
    ASSUME skill' = skill, table' = table
    PROVE  Present' = Present /\ Listed' = Listed /\ \A r : SortTuple(r)' = SortTuple(r)
BY DEF Present, Listed, Where, SortTuple, Fact

LEMMA InitTyped == Init => TypeOK
<1> SUFFICES ASSUME Init PROVE TypeOK OBVIOUS
<1>1. PICK present \in SUBSET Rows : table \in [present -> Keys] BY DEF Init, Tables
<1>2. Present \subseteq Rows /\ Range(table) \subseteq Keys BY <1>1 DEF Present, Range
<1>3. changes \in 0 .. MaxChanges BY PagingAssumption DEF Init, PagingAssumption
<1> QED BY <1>2, <1>3 DEF Init, TypeOK

LEMMA NextTyped ==
    ASSUME TypeOK, [Next]_vars
    PROVE  TypeOK'
<1>1. CASE Request
    <2>1. PICK n \in 0 .. RequestLimit : \E reply \in [1 .. n -> RowsAskedFor] :
            /\ IsAnswer(reply, RowsAskedFor, RequestLimit)
            /\ IF Drifted(reply) THEN Fail ELSE ShowPage(reply)
        BY <1>1 DEF Request
    <2>2. n \in Nat OBVIOUS
    <2>3. PICK reply \in [1 .. n -> RowsAskedFor] :
            IF Drifted(reply) THEN Fail ELSE ShowPage(reply)
        BY <2>1
    <2>4. CASE Fail BY <2>4, ListKept DEF Fail, TypeOK
    <2>5. CASE ShowPage(reply)
        <3>1. Cardinality(ShownRows(reply)) \in Nat BY <2>2, ShownFinite
        <3>2. shown' \in Nat BY <2>5, <3>1 DEF ShowPage, TypeOK
        <3>3. times' \in [Rows -> Nat] BY <2>5 DEF ShowPage, TypeOK
        <3>4. steady' \subseteq Listed BY <2>5 DEF ShowPage, TypeOK
        <3>5. phase' \in {"more", "end"} /\ (phase' = "more" => cursor' = SortTuple(LastShown(reply)))
            BY <2>5 DEF ShowPage
        <3>6. DOMAIN SortTuple(LastShown(reply)) = DOMAIN skill.sort BY DEF SortTuple
        <3>7. skill' = skill /\ table' = table /\ changes' = changes BY <2>5 DEF ShowPage
        <3> QED BY <3>2, <3>3, <3>4, <3>5, <3>6, <3>7, ListKept DEF TypeOK
    <2> QED BY <2>3, <2>4, <2>5
<1>2. CASE Exhausted BY <1>2, ListKept DEF Exhausted, Fail, TypeOK
<1>3. ASSUME NEW r \in Rows, Change(r) PROVE TypeOK'
    <2>1. /\ Present' \subseteq Rows /\ Range(table)' \subseteq Keys
          /\ \A q \in Present : q # r => q \in Present' /\ table'[q] = table[q]
        <3>1. CASE \E k \in Keys :
                    table' = [q \in Present \cup {r} |-> IF q = r THEN k ELSE table[q]]
            <4>1. PICK k \in Keys :
                    table' = [q \in Present \cup {r} |-> IF q = r THEN k ELSE table[q]]
                BY <3>1
            <4>2. Present' = Present \cup {r} BY <4>1 DEF Present
            <4>3. \A q \in Present' : table'[q] \in Keys BY <4>1, <4>2, RowTyped
            <4> QED BY <4>1, <4>2, <4>3 DEF TypeOK, Present, Range
        <3>2. CASE table' = [q \in Present \ {r} |-> table[q]]
            <4>1. Present' = Present \ {r} BY <3>2 DEF Present
            <4>2. \A q \in Present' : table'[q] \in Keys BY <3>2, <4>1, RowTyped
            <4> QED BY <3>2, <4>1, <4>2 DEF TypeOK, Present, Range
        <3> QED BY <1>3, <3>1, <3>2 DEF Change
    <2>3. steady' \subseteq Listed'
        <3> SUFFICES ASSUME NEW q \in steady' PROVE q \in Listed' OBVIOUS
        <3>1. skill' = skill /\ q \in Listed /\ q # r BY <1>3 DEF Change, TypeOK
        <3>2. q \in Present' /\ table'[q] = table[q] BY <2>1, <3>1 DEF Listed
        <3> QED BY <3>1, <3>2 DEF Listed, Where
    <2>2. changes' \in 0 .. MaxChanges
        BY <1>3, PagingAssumption DEF Change, TypeOK, PagingAssumption
    <2> QED BY <1>3, <2>1, <2>2, <2>3 DEF Change, TypeOK
<1>4. CASE UNCHANGED vars BY <1>4, ListKept DEF vars, TypeOK
<1> QED BY <1>1, <1>2, <1>3, <1>4 DEF Next

(* TypeOK: the types of the state of a list, whatever the skills.          *)
THEOREM PagingTypeCorrect == Spec => []TypeOK
<1>1. Init => TypeOK BY InitTyped
<1>2. TypeOK /\ [Next]_vars => TypeOK' BY NextTyped
<1> QED BY <1>1, <1>2, PTL DEF Spec

(***************************************************************************)
(* A page                                                                  *)
(***************************************************************************)

(* The query sorts by the declared facts, the identity at their end, and    *)
(* leaves the choice among the rows of the list to the cursor.             *)
Ordered ==
    /\ OrderMatches(skill)
    /\ skill.sort[Len(skill.sort)].fact = "id"
    /\ skill.strategy = "keyset" =>
          /\ PredicateMatches(skill)
          /\ \A row \in Rows \X Keys : skill.where[row] \in {"part", "none"}

(* A row of the list is in 1C. *)
LEMMA ListedTyped ==
    ASSUME TypeOK, NEW r \in Listed
    PROVE  r \in Present /\ r \in Rows /\ r \in Nat /\ table[r] \in Nat
BY RowTyped DEF Listed

LEMMA TupleTyped ==
    ASSUME TypeOK, NEW r \in Listed
    PROVE  SortTuple(r) \in Tuples(skill.sort)
<1>1. \A f \in Facts : Fact(r, f) \in Nat BY ListedTyped DEF Fact
<1>2. \A i \in DOMAIN skill.sort : skill.sort[i] \in SortItem BY SkillTyped
<1>3. \A i \in DOMAIN skill.sort : skill.sort[i].fact \in Facts BY <1>2 DEF SortItem
<1> QED BY <1>1, <1>3 DEF SortTuple, Tuples

(* Of a kept keyset query every row is the cursor's choice or none. *)
LEMMA KeptWhere ==
    ASSUME TypeOK, Ordered, skill.strategy = "keyset", NEW r \in Present
    PROVE  Where(r) \in {"part", "none"}
<1>1. <<r, table[r]>> \in Rows \X Keys BY RowTyped
<1> QED BY <1>1 DEF Ordered, Where

LEMMA RequestTyped ==
    ASSUME TypeOK, Ordered
    PROVE  Skip \in Nat /\ RowsAskedFor \subseteq Listed
<1>1. Skip \in Nat BY DEF TypeOK, Skip
<1>2. RowsAskedFor \subseteq Listed
    BY KeptWhere DEF RowsAskedFor, Selected, Listed
<1> QED BY <1>1, <1>2

(* A reply, and the last of its rows that the page shows. *)
LEMMA ReplyTyped ==
    ASSUME TypeOK, Ordered, NEW n \in Nat, NEW reply \in [1 .. n -> RowsAskedFor]
    PROVE  /\ Len(reply) = n /\ DOMAIN reply = 1 .. n
           /\ \A i \in 1 .. n : reply[i] \in Listed
           /\ Range(reply) = {reply[i] : i \in 1 .. n}
<1>1. reply \in Seq(RowsAskedFor) OBVIOUS
<1> QED BY <1>1, RequestTyped DEF Range

(* The cursor is past the row. *)
Reached(r) == SortTuple(r) = cursor \/ Precedes(skill.sort, SortTuple(r), cursor)

(* A list that goes on has a cursor, and where rows are skipped it has some. *)
HasCursor ==
    Continued =>
        /\ cursor \in Tuples(skill.sort)
        /\ skill.strategy = "prefix" => shown # 0

(* Rows have tuples of their own. *)
LEMMA TuplesDiffer ==
    ASSUME TypeOK, Ordered, NEW q \in Listed, NEW r \in Listed, SortTuple(q) = SortTuple(r)
    PROVE  q = r
<1>1. Len(skill.sort) \in DOMAIN skill.sort BY SkillTyped
<1>2. \A p \in Listed : SortTuple(p)[Len(skill.sort)] = p
    BY <1>1 DEF SortTuple, Ordered, Fact
<1> QED BY <1>2

(* The query's order is the declared one. *)
LEMMA BeforePrecedes ==
    ASSUME TypeOK, Ordered, NEW q, NEW r
    PROVE  Before(q, r) <=> Precedes(skill.sort, SortTuple(q), SortTuple(r))
BY DEF Before, OrderTuple, SortTuple, Ordered, OrderMatches

(* A continued keyset query asks for the rows after the cursor. *)
LEMMA AskedAfterCursor ==
    ASSUME TypeOK, Ordered, skill.strategy = "keyset", Continued
    PROVE  RowsAskedFor = {r \in Listed : Precedes(skill.sort, cursor, SortTuple(r))}
<1>1. PredicateMatches(skill) BY DEF Ordered
<1>2. RowsAskedFor =
        {r \in Listed : \E n \in DOMAIN skill.branches : \A j \in DOMAIN skill.branches[n] :
            Holds(skill.branches[n][j].op, Fact(r, skill.branches[n][j].fact),
                  cursor[skill.branches[n][j].cursor])}
    BY KeptWhere DEF RowsAskedFor, Selected, Listed, CursorPart
<1>3. ASSUME NEW r \in Listed, NEW n \in DOMAIN skill.sort
      PROVE  (\A j \in DOMAIN skill.branches[n] :
                Holds(skill.branches[n][j].op, Fact(r, skill.branches[n][j].fact),
                      cursor[skill.branches[n][j].cursor]))
             <=> /\ IF skill.sort[n].dir = "asc" THEN cursor[n] < SortTuple(r)[n]
                                                 ELSE SortTuple(r)[n] < cursor[n]
                 /\ \A j \in 1 .. (n - 1) : cursor[j] = SortTuple(r)[j]
    <2>1. n \in Nat /\ n >= 1 /\ 1 .. n \subseteq DOMAIN skill.sort BY SkillTyped
    <2>2. DOMAIN skill.branches[n] = 1 .. n BY <1>1 DEF PredicateMatches
    <2>3. \A j \in 1 .. n : skill.branches[n][j] =
                [fact |-> skill.sort[j].fact, cursor |-> j,
                 op |-> IF j < n THEN "=" ELSE Strict(skill.sort[n].dir)]
        BY <1>1 DEF PredicateMatches
    <2>4. \A j \in 1 .. n : SortTuple(r)[j] = Fact(r, skill.sort[j].fact)
        BY <2>1 DEF SortTuple
    <2>5. \A j \in 1 .. n :
            Holds(skill.branches[n][j].op, Fact(r, skill.branches[n][j].fact),
                  cursor[skill.branches[n][j].cursor])
            <=> Holds(IF j < n THEN "=" ELSE Strict(skill.sort[n].dir), SortTuple(r)[j], cursor[j])
        <3> SUFFICES ASSUME NEW j \in 1 .. n
                     PROVE  Holds(skill.branches[n][j].op, Fact(r, skill.branches[n][j].fact),
                                  cursor[skill.branches[n][j].cursor])
                            <=> Holds(IF j < n THEN "=" ELSE Strict(skill.sort[n].dir),
                                      SortTuple(r)[j], cursor[j])
            OBVIOUS
        <3> DEFINE op == IF j < n THEN "=" ELSE Strict(skill.sort[n].dir)
        <3>1. skill.branches[n][j] = [fact |-> skill.sort[j].fact, cursor |-> j, op |-> op]
            BY <2>3
        <3> HIDE DEF op
        <3>2. /\ skill.branches[n][j].op = op
              /\ skill.branches[n][j].fact = skill.sort[j].fact
              /\ skill.branches[n][j].cursor = j
            BY <3>1
        <3>3. SortTuple(r)[j] = Fact(r, skill.sort[j].fact) BY <2>4
        <3>4. Holds(skill.branches[n][j].op, Fact(r, skill.branches[n][j].fact),
                    cursor[skill.branches[n][j].cursor])
              <=> Holds(op, SortTuple(r)[j], cursor[j])
            BY <3>2, <3>3, Zenon
        <3> QED BY <3>4 DEF op
    <2>6. \A j \in 1 .. (n - 1) : j \in 1 .. n /\ j < n BY <2>1
    <2>7. \A j \in 1 .. n : j \in 1 .. (n - 1) \/ j = n BY <2>1
    <2>8. \A a, b : Holds("=", a, b) <=> a = b BY DEF Holds
    <2>9. Holds(Strict(skill.sort[n].dir), SortTuple(r)[n], cursor[n])
            <=> IF skill.sort[n].dir = "asc" THEN SortTuple(r)[n] > cursor[n]
                                             ELSE SortTuple(r)[n] < cursor[n]
        BY DEF Holds, Strict
    <2>10. n \in 1 .. n /\ ~(n < n) BY <2>1
    <2> QED BY <2>2, <2>5, <2>6, <2>7, <2>8, <2>9, <2>10
<1>4. DOMAIN skill.branches = DOMAIN skill.sort BY <1>1 DEF PredicateMatches
<1> QED BY <1>2, <1>3, <1>4 DEF Precedes

(* Where the rows shown so far end among the rows of a reply: skipped rows  *)
(* are those the cursor has reached.                                       *)
LEMMA ReplyIsSorted ==
    ASSUME TypeOK, Ordered, NEW n \in Nat, NEW reply \in [1 .. n -> RowsAskedFor],
           NEW limit, IsAnswer(reply, RowsAskedFor, limit)
    PROVE  \A i, j \in 1 .. n : i < j =>
                Precedes(skill.sort, SortTuple(reply[i]), SortTuple(reply[j]))
<1> SUFFICES ASSUME NEW i \in 1 .. n, NEW j \in 1 .. n, i < j
             PROVE  Precedes(skill.sort, SortTuple(reply[i]), SortTuple(reply[j]))
    OBVIOUS
<1>1. DOMAIN reply = 1 .. n /\ reply[i] \in Listed /\ reply[j] \in Listed BY ReplyTyped
<1>2. reply[i] # reply[j] BY <1>1 DEF IsAnswer
<1>3. SortTuple(reply[i]) # SortTuple(reply[j]) BY <1>1, <1>2, TuplesDiffer
<1>4. ~Precedes(skill.sort, SortTuple(reply[j]), SortTuple(reply[i]))
    BY <1>1, BeforePrecedes DEF IsAnswer
<1>5. SortTuple(reply[i]) \in Tuples(skill.sort) /\ SortTuple(reply[j]) \in Tuples(skill.sort)
    BY <1>1, TupleTyped
<1> QED BY <1>3, <1>4, <1>5, OrderTotal, SkillTyped

(* A row asked for and not sent comes after every row sent, and then the    *)
(* reply is as long as the request allows.                                 *)
LEMMA LeftOutIsLater ==
    ASSUME TypeOK, Ordered, NEW n \in Nat, NEW reply \in [1 .. n -> RowsAskedFor],
           NEW limit, IsAnswer(reply, RowsAskedFor, limit),
           NEW r \in RowsAskedFor, r \notin Range(reply)
    PROVE  /\ n = limit
           /\ \A i \in 1 .. n : Precedes(skill.sort, SortTuple(reply[i]), SortTuple(r))
<1>1. DOMAIN reply = 1 .. n /\ Len(reply) = n /\ r \in Listed
    BY ReplyTyped, RequestTyped
<1>2. Len(reply) = limit /\ \A i \in DOMAIN reply : ~Before(r, reply[i]) BY DEF IsAnswer
<1>3. ASSUME NEW i \in 1 .. n
      PROVE  Precedes(skill.sort, SortTuple(reply[i]), SortTuple(r))
    <2>1. reply[i] \in Listed /\ reply[i] # r BY ReplyTyped
    <2>2. SortTuple(reply[i]) # SortTuple(r) BY <1>1, <2>1, TuplesDiffer
    <2>3. ~Precedes(skill.sort, SortTuple(r), SortTuple(reply[i])) BY <1>1, <1>2, BeforePrecedes
    <2> QED BY <1>1, <2>1, <2>2, <2>3, OrderTotal, SkillTyped, TupleTyped
<1> QED BY <1>1, <1>2, <1>3

(* A cursor separates what is before from what is after. *)
LEMMA NotReachedAfter ==
    ASSUME TypeOK, NEW r \in Listed, cursor \in Tuples(skill.sort)
    PROVE  ~Reached(r) <=> Precedes(skill.sort, cursor, SortTuple(r))
<1>1. SortTuple(r) \in Tuples(skill.sort) /\ skill.sort \in Seq(SortItem)
    BY TupleTyped, SkillTyped
<1>2. CASE ~Reached(r) BY <1>1, <1>2, OrderTotal DEF Reached
<1>3. CASE SortTuple(r) = cursor BY <1>1, <1>3, OrderStrict DEF Reached
<1>4. CASE Precedes(skill.sort, SortTuple(r), cursor)
    BY <1>1, <1>4, OrderStrict, OrderTransitive DEF Reached
<1> QED BY <1>2, <1>3, <1>4 DEF Reached

(* A request for a list as it may be, and its reply. *)
Replied(n, reply) ==
    /\ TypeOK /\ Ordered /\ HasCursor
    /\ phase \in {"new", "more"} /\ (phase = "new" => shown = 0)
    /\ n \in 0 .. RequestLimit /\ n \in Nat /\ reply \in [1 .. n -> RowsAskedFor]
    /\ IsAnswer(reply, RowsAskedFor, RequestLimit)
    /\ ~Drifted(reply)

LEMMA AskedForAll ==
    ASSUME TypeOK, Ordered, skill.strategy = "prefix" \/ ~Continued
    PROVE  RowsAskedFor = Listed
<1>1. CASE skill.strategy = "prefix" BY <1>1 DEF RowsAskedFor
<1>2. CASE skill.strategy = "keyset" /\ ~Continued
    <2>1. skill.guarded BY <1>2 DEF Ordered, PredicateMatches
    <2>2. \A r : CursorPart(r, Continued) BY <1>2, <2>1 DEF CursorPart
    <2> QED BY <1>2, <2>2, KeptWhere DEF RowsAskedFor, Selected, Listed
<1> QED BY <1>1, <1>2, SkillTyped DEF SkillContracts

LEMMA ReplySplits ==
    ASSUME NEW n, NEW reply, Replied(n, reply)
    PROVE  \A i \in 1 .. n : (Continued /\ Reached(reply[i])) <=> i <= Skip
<1> SUFFICES ASSUME NEW i \in 1 .. n
             PROVE  (Continued /\ Reached(reply[i])) <=> i <= Skip
    OBVIOUS
<1> USE DEF Replied
<1>1. reply[i] \in Listed /\ DOMAIN reply = 1 .. n /\ Len(reply) = n BY ReplyTyped
<1>2. skill.strategy \in {"keyset", "prefix"} BY SkillTyped DEF SkillContracts
<1>3. CASE ~Continued
    <2>1. Skip = 0 BY <1>2, <1>3 DEF Skip, Continued
    <2> QED BY <1>3, <2>1
<1>4. CASE Continued /\ skill.strategy = "keyset"
    <2>1. Skip = 0 BY <1>4 DEF Skip
    <2>2. Precedes(skill.sort, cursor, SortTuple(reply[i])) BY <1>4, AskedAfterCursor
    <2>3. ~Reached(reply[i]) BY <1>1, <1>4, <2>2, NotReachedAfter DEF HasCursor
    <2> QED BY <2>1, <2>3
<1>5. CASE Continued /\ skill.strategy = "prefix"
    <2>1. Skip = shown /\ shown \in Nat /\ shown > 0 BY <1>5 DEF Skip, HasCursor, TypeOK
    <2>2. Skip <= n /\ SortTuple(reply[Skip]) = cursor /\ Skip \in 1 .. n
        BY <1>1, <1>5, <2>1 DEF Drifted
    <2>3. \A j, m \in 1 .. n : j < m =>
                Precedes(skill.sort, SortTuple(reply[j]), SortTuple(reply[m]))
        BY ReplyIsSorted
    <2>4. CASE i < Skip BY <1>5, <2>2, <2>3, <2>4 DEF Reached
    <2>5. CASE i = Skip BY <1>5, <2>2, <2>5 DEF Reached
    <2>6. CASE i > Skip
        <3>1. Precedes(skill.sort, cursor, SortTuple(reply[i])) BY <2>2, <2>3, <2>6
        <3>2. ~Reached(reply[i]) BY <1>1, <1>5, <3>1, NotReachedAfter DEF HasCursor
        <3> QED BY <2>1, <2>6, <3>2
    <2> QED BY <2>1, <2>4, <2>5, <2>6
<1> QED BY <1>2, <1>3, <1>4, <1>5

(* A row that was not sent is before the cursor, and before all of the      *)
(* reply, or after both.                                                   *)
LEMMA RestSplits ==
    ASSUME NEW n, NEW reply, Replied(n, reply), NEW r \in Listed, r \notin Range(reply)
    PROVE  \/ /\ Continued /\ Reached(r)
              /\ \A i \in 1 .. n : Precedes(skill.sort, SortTuple(r), SortTuple(reply[i]))
           \/ /\ ~(Continued /\ Reached(r)) /\ n = RequestLimit
              /\ \A i \in 1 .. n : Precedes(skill.sort, SortTuple(reply[i]), SortTuple(r))
<1> USE DEF Replied
<1>1. DOMAIN reply = 1 .. n /\ Len(reply) = n /\ \A i \in 1 .. n : reply[i] \in Listed
    BY ReplyTyped
<1>2. skill.strategy \in {"keyset", "prefix"} BY SkillTyped DEF SkillContracts
<1>3. CASE r \notin RowsAskedFor
    <2>1. Continued /\ skill.strategy = "keyset" BY <1>2, <1>3, AskedForAll
    <2>2. RowsAskedFor = {q \in Listed : Precedes(skill.sort, cursor, SortTuple(q))}
        BY <2>1, AskedAfterCursor
    <2>3. Reached(r) BY <1>3, <2>1, <2>2, NotReachedAfter DEF HasCursor
    <2>4. ASSUME NEW i \in 1 .. n
          PROVE  Precedes(skill.sort, SortTuple(r), SortTuple(reply[i]))
        <3>1. Precedes(skill.sort, cursor, SortTuple(reply[i])) BY <2>2
        <3>2. /\ cursor \in Tuples(skill.sort) /\ SortTuple(r) \in Tuples(skill.sort)
              /\ SortTuple(reply[i]) \in Tuples(skill.sort) /\ skill.sort \in Seq(SortItem)
            BY <1>1, <2>1, TupleTyped, SkillTyped DEF HasCursor
        <3> QED BY <2>3, <3>1, <3>2, OrderTransitive DEF Reached
    <2> QED BY <2>1, <2>3, <2>4
<1>4. CASE r \in RowsAskedFor
    <2>1. /\ n = RequestLimit
          /\ \A i \in 1 .. n : Precedes(skill.sort, SortTuple(reply[i]), SortTuple(r))
        BY <1>4, LeftOutIsLater
    <2>2. CASE ~Continued BY <2>1, <2>2
    <2>3. CASE Continued /\ skill.strategy = "keyset"
        <3>1. Precedes(skill.sort, cursor, SortTuple(r)) BY <1>4, <2>3, AskedAfterCursor
        <3>2. ~Reached(r) BY <2>3, <3>1, NotReachedAfter DEF HasCursor
        <3> QED BY <2>1, <3>2
    <2>4. CASE Continued /\ skill.strategy = "prefix"
        <3>1. Skip = shown /\ shown \in Nat /\ shown > 0 BY <2>4 DEF Skip, HasCursor, TypeOK
        <3>2. SortTuple(reply[Skip]) = cursor /\ Skip \in 1 .. n
            BY <1>1, <2>4, <3>1 DEF Drifted
        <3>3. Precedes(skill.sort, cursor, SortTuple(r)) BY <2>1, <3>2
        <3>4. ~Reached(r) BY <2>4, <3>3, NotReachedAfter DEF HasCursor
        <3> QED BY <2>1, <3>4
    <2> QED BY <1>2, <2>2, <2>3, <2>4
<1> QED BY <1>3, <1>4

LEMMA SmallestIs ==
    ASSUME NEW a \in Nat, NEW b \in Nat, NEW c \in Nat
    PROVE  /\ Smallest({a, b, c}) \in {a, b, c}
           /\ Smallest({a, b, c}) <= a /\ Smallest({a, b, c}) <= b /\ Smallest({a, b, c}) <= c
<1>1. \E x \in {a, b, c} : \A y \in {a, b, c} : x <= y
    <2>1. CASE a <= b /\ a <= c BY <2>1
    <2>2. CASE b <= a /\ b <= c BY <2>2
    <2>3. CASE c <= a /\ c <= b BY <2>3
    <2> QED BY <2>1, <2>2, <2>3
<1> QED BY <1>1 DEF Smallest

LEMMA LimitTyped ==
    ASSUME TypeOK
    PROVE  RequestLimit \in Nat \ {0}
<1>1. /\ shown + PageSize + 1 \in Nat \ {0} /\ MaxTotal \in Nat \ {0} /\ Maximum \in Nat \ {0}
      /\ PageSize + 1 \in Nat \ {0}
    BY PagingAssumption DEF PagingAssumption, TypeOK
<1> QED BY <1>1, SmallestIs DEF RequestLimit

(* The page shows the rows of the reply up to this one. *)
LastIndex(n) == IF n <= Skip + PageSize THEN n ELSE Skip + PageSize

(* A request that is sent asks for more than it skips. *)
AsksForMore == RequestLimit > Skip

LEMMA PageEnds ==
    ASSUME NEW n, NEW reply, Replied(n, reply), AsksForMore, ShowPage(reply)
    PROVE  /\ LastIndex(n) \in Nat /\ LastIndex(n) <= n /\ Skip \in Nat
           /\ \A i \in 1 .. n :
                 reply[i] \in ShownRows(reply) <=> Skip < i /\ i <= LastIndex(n)
           /\ ShownRows(reply) \subseteq Range(reply)
           /\ \/ /\ phase' = "more" /\ Skip < LastIndex(n) /\ LastIndex(n) \in 1 .. n
                 /\ cursor' = SortTuple(reply[LastIndex(n)])
                 /\ Range(reply) # RowsAskedFor \/ n > LastIndex(n) \/ n = RequestLimit
              \/ /\ phase' = "end" /\ LastIndex(n) = n /\ cursor' = cursor
                 /\ Range(reply) = RowsAskedFor
<1> USE DEF Replied
<1>1. /\ DOMAIN reply = 1 .. n /\ Len(reply) = n /\ Range(reply) = {reply[i] : i \in 1 .. n}
      /\ Range(reply) \subseteq RowsAskedFor
    BY ReplyTyped
<1>2. Skip \in Nat /\ RequestLimit \in Nat /\ PageSize \in Nat \ {0}
    BY RequestTyped, LimitTyped, PagingAssumption DEF PagingAssumption
<1>3. \A i, j \in 1 .. n : reply[i] = reply[j] => i = j BY <1>1 DEF IsAnswer
<1>4. ShownRows(reply) = {reply[i] : i \in {m \in 1 .. n : Skip < m /\ m <= Skip + PageSize}}
    BY <1>1 DEF ShownRows
<1>5. \A i \in 1 .. n : reply[i] \in ShownRows(reply) <=> Skip < i /\ i <= LastIndex(n)
    BY <1>2, <1>3, <1>4 DEF LastIndex
<1>6. LastIndex(n) \in Nat /\ LastIndex(n) <= n BY <1>2 DEF LastIndex
<1>7. Range(reply) # RowsAskedFor => n = RequestLimit BY <1>1, LeftOutIsLater
<1>8. PICK said \in MoreSaid(reply) :
          IF said \/ Len(reply) > Skip + PageSize
          THEN phase' = "more" /\ cursor' = SortTuple(LastShown(reply))
          ELSE phase' = "end" /\ cursor' = cursor
    BY DEF ShowPage
<1>9. LastShown(reply) = reply[LastIndex(n)] BY <1>1 DEF LastShown, LastIndex
<1>10. said => n = RequestLimit BY <1>1, <1>7, <1>8 DEF MoreSaid
<1>11. ~said => Range(reply) = RowsAskedFor BY <1>1, <1>7, <1>8 DEF MoreSaid
<1>12. CASE said \/ n > Skip + PageSize
    <2>1. n > Skip BY <1>2, <1>10, <1>12 DEF AsksForMore
    <2>2. Skip < LastIndex(n) /\ LastIndex(n) \in 1 .. n BY <1>2, <2>1 DEF LastIndex
    <2>3. n > LastIndex(n) \/ n = RequestLimit BY <1>2, <1>10, <1>12 DEF LastIndex
    <2> QED BY <1>1, <1>2, <1>4, <1>5, <1>6, <1>8, <1>9, <1>12, <2>2, <2>3
<1>13. CASE ~(said \/ n > Skip + PageSize)
    <2>1. LastIndex(n) = n BY <1>2, <1>13 DEF LastIndex
    <2> QED BY <1>1, <1>2, <1>4, <1>5, <1>6, <1>8, <1>11, <1>13, <2>1
<1> QED BY <1>12, <1>13

(***************************************************************************)
(* The invariant                                                           *)
(***************************************************************************)

(* Nothing of a new list is shown; of one that goes on the steady rows are  *)
(* shown up to the cursor; of one that has ended all of them are.          *)
CursorCuts ==
    /\ phase = "new" => shown = 0 /\ steady = {} /\ \A r \in Rows : times[r] = 0
    /\ Continued => \A r \in steady : times[r] = IF Reached(r) THEN 1 ELSE 0
    /\ phase = "end" => \A r \in steady : times[r] = 1
    /\ phase = "error" => \A r \in steady : times[r] <= 1

PageInv == TypeOK /\ (Ordered => HasCursor /\ CursorCuts)

(* A page moves the cursor over the rows it shows. *)
LEMMA PageCut ==
    ASSUME NEW n, NEW reply, Replied(n, reply), AsksForMore, CursorCuts, ShowPage(reply)
    PROVE  HasCursor' /\ CursorCuts'
<1> USE DEF Replied
<1> DEFINE last == LastIndex(n)
<1>1. /\ last \in Nat /\ last <= n /\ Skip \in Nat
      /\ \A i \in 1 .. n : reply[i] \in ShownRows(reply) <=> Skip < i /\ i <= last
      /\ ShownRows(reply) \subseteq Range(reply)
      /\ \/ /\ phase' = "more" /\ Skip < last /\ last \in 1 .. n
            /\ cursor' = SortTuple(reply[last])
         \/ /\ phase' = "end" /\ last = n /\ cursor' = cursor
            /\ Range(reply) = RowsAskedFor
    BY PageEnds
<1> HIDE DEF last
<1>2. /\ skill' = skill /\ table' = table
      /\ shown' = shown + Cardinality(ShownRows(reply))
      /\ times' = [r \in Rows |-> times[r] + IF r \in ShownRows(reply) THEN 1 ELSE 0]
      /\ steady' = IF Continued THEN steady ELSE Listed
    BY DEF ShowPage
<1>3. steady' \subseteq Listed /\ Listed \subseteq Rows BY <1>2, ListedTyped DEF TypeOK
<1>4. /\ DOMAIN reply = 1 .. n /\ Range(reply) = {reply[i] : i \in 1 .. n}
      /\ \A i \in 1 .. n : reply[i] \in Listed
    BY ReplyTyped
<1>5. \A i, j \in 1 .. n : i < j =>
            Precedes(skill.sort, SortTuple(reply[i]), SortTuple(reply[j]))
    BY ReplyIsSorted
<1>6. \A r \in Listed : SortTuple(r)' = SortTuple(r) /\ SortTuple(r) \in Tuples(skill.sort)
    BY <1>2, TupleTyped DEF SortTuple, Fact
<1>7. skill.sort \in Seq(SortItem) BY SkillTyped
<1>8. \A r \in steady' : times[r] = IF Continued /\ Reached(r) THEN 1 ELSE 0
    BY <1>2, <1>3 DEF CursorCuts, Continued
<1>9. \A r \in Rows : times'[r] = times[r] + IF r \in ShownRows(reply) THEN 1 ELSE 0
    BY <1>2
<1>10. \A i \in 1 .. n : reply[i] \in steady' => times'[reply[i]] = IF i <= last THEN 1 ELSE 0
    <2>1. \A i \in 1 .. n : (Continued /\ Reached(reply[i])) <=> i <= Skip BY ReplySplits
    <2> SUFFICES ASSUME NEW i \in 1 .. n, reply[i] \in steady'
                 PROVE  times'[reply[i]] = IF i <= last THEN 1 ELSE 0
        OBVIOUS
    <2>2. times[reply[i]] = IF i <= Skip THEN 1 ELSE 0 BY <1>8, <2>1
    <2>3. times'[reply[i]] = times[reply[i]] + IF Skip < i /\ i <= last THEN 1 ELSE 0
        BY <1>1, <1>3, <1>9
    <2>4. i <= Skip => i <= last
        <3>1. Skip < last \/ last = n BY <1>1
        <3> QED BY <1>1, <3>1
    <2> QED BY <1>1, <2>2, <2>3, <2>4
<1>11. CASE phase' = "more"
    <2>1. Skip < last /\ last \in 1 .. n /\ cursor' = SortTuple(reply[last]) BY <1>1, <1>11
    <2>2. HasCursor'
        <3>1. cursor' \in Tuples(skill.sort)' BY <1>2, <1>4, <1>6, <2>1 DEF Tuples
        <3>2. shown' # 0
            <4>1. IsFiniteSet(ShownRows(reply)) /\ Cardinality(ShownRows(reply)) \in Nat
                BY ShownFinite
            <4>2. reply[last] \in ShownRows(reply) BY <1>1, <2>1
            <4>3. Cardinality(ShownRows(reply)) # 0 BY <4>1, <4>2, FS_EmptySet
            <4> QED BY <1>2, <4>1, <4>3 DEF TypeOK
        <3> QED BY <3>1, <3>2 DEF HasCursor
    <2>3. ASSUME NEW r \in steady' PROVE times'[r] = IF Reached(r)' THEN 1 ELSE 0
        <3>1. r \in Listed /\ r \in Rows BY <1>3
        <3>2. Reached(r)' <=> \/ SortTuple(r) = SortTuple(reply[last])
                              \/ Precedes(skill.sort, SortTuple(r), SortTuple(reply[last]))
            BY <1>2, <1>6, <2>1, <3>1 DEF Reached
        <3>3. SortTuple(r) \in Tuples(skill.sort) /\ SortTuple(reply[last]) \in Tuples(skill.sort)
            BY <1>4, <1>6, <2>1, <3>1
        <3>4. CASE r \in Range(reply)
            <4>1. PICK i \in 1 .. n : r = reply[i] BY <1>4, <3>4
            <4>2. CASE i <= last
                <5>1. Reached(r)' BY <1>5, <2>1, <3>2, <4>1, <4>2
                <5> QED BY <1>10, <4>1, <4>2, <5>1
            <4>3. CASE i > last
                <5>1. Precedes(skill.sort, SortTuple(reply[last]), SortTuple(r))
                    BY <1>5, <2>1, <4>1, <4>3
                <5>2. ~Reached(r)' BY <1>7, <3>2, <3>3, <5>1, OrderStrict, OrderTransitive
                <5> QED BY <1>1, <1>10, <4>1, <4>3, <5>2
            <4> QED BY <1>1, <4>2, <4>3
        <3>5. CASE r \notin Range(reply)
            <4>1. times'[r] = times[r] /\ times[r] = IF Continued /\ Reached(r) THEN 1 ELSE 0
                BY <1>1, <1>8, <1>9, <3>1, <3>5
            <4>2. \/ /\ Continued /\ Reached(r)
                     /\ Precedes(skill.sort, SortTuple(r), SortTuple(reply[last]))
                  \/ /\ ~(Continued /\ Reached(r))
                     /\ Precedes(skill.sort, SortTuple(reply[last]), SortTuple(r))
                BY <2>1, <3>1, <3>5, RestSplits
            <4>3. Precedes(skill.sort, SortTuple(reply[last]), SortTuple(r)) => ~Reached(r)'
                BY <1>7, <3>2, <3>3, OrderStrict, OrderTransitive
            <4> QED BY <3>2, <4>1, <4>2, <4>3
        <3> QED BY <3>4, <3>5
    <2> QED BY <1>11, <2>2, <2>3 DEF CursorCuts, Continued
<1>12. CASE phase' = "end"
    <2>1. last = n /\ Range(reply) = RowsAskedFor BY <1>1, <1>12
    <2>2. ASSUME NEW r \in steady' PROVE times'[r] = 1
        <3>1. CASE r \in Range(reply)
            <4>1. PICK i \in 1 .. n : r = reply[i] BY <1>4, <3>1
            <4>2. i <= last BY <2>1
            <4> QED BY <1>10, <4>1, <4>2
        <3>2. CASE r \notin Range(reply)
            <4>1. r \in Listed /\ r \in Rows BY <1>3
            <4>2. Continued /\ Reached(r)
                <5>1. Continued /\ skill.strategy = "keyset"
                    BY <2>1, <3>2, <4>1, AskedForAll, SkillTyped DEF SkillContracts
                <5>2. ~Precedes(skill.sort, cursor, SortTuple(r))
                    BY <2>1, <3>2, <4>1, <5>1, AskedAfterCursor
                <5> QED BY <4>1, <5>1, <5>2, NotReachedAfter DEF HasCursor
            <4>3. times[r] = 1 /\ times'[r] = times[r] BY <1>1, <1>8, <1>9, <3>2, <4>1, <4>2
            <4> QED BY <4>3
        <3> QED BY <3>1, <3>2
    <2>3. HasCursor' BY <1>12 DEF HasCursor, Continued
    <2> QED BY <1>12, <2>2, <2>3 DEF CursorCuts, Continued
<1> QED BY <1>1, <1>11, <1>12

(* The skill of the list is accepted. *)
AcceptedInv == SkillAccepted(skill)

LEMMA AcceptedIsOrdered ==
    ASSUME TypeOK, AcceptedInv, QueryKept
    PROVE  Ordered
<1>1. skill.strategy \in {"keyset", "prefix"} BY SkillTyped DEF SkillContracts
<1>2. CASE skill.strategy = "keyset"
    BY <1>2 DEF AcceptedInv, SkillAccepted, SortDeclared, QueryKept, Ordered
<1>3. CASE skill.strategy = "prefix" BY <1>3 DEF QueryKept, Ordered
<1> QED BY <1>1, <1>2, <1>3

LEMMA InitPage == Init => PageInv /\ AcceptedInv
<1> SUFFICES ASSUME Init PROVE PageInv /\ AcceptedInv OBVIOUS
<1>1. TypeOK BY InitTyped
<1>2. HasCursor /\ CursorCuts BY DEF Init, HasCursor, CursorCuts, Continued
<1> QED BY <1>1, <1>2 DEF PageInv, AcceptedInv, Init

LEMMA NextPage ==
    ASSUME PageInv, AcceptedInv, [Next]_vars
    PROVE  PageInv' /\ AcceptedInv'
<1> USE DEF PageInv
<1>1. TypeOK' BY NextTyped
<1>2. skill' = skill BY DEF Next, Request, Exhausted, Fail, ShowPage, Change, vars
<1>3. AcceptedInv' BY <1>2 DEF AcceptedInv
<1>4. Ordered' <=> Ordered BY <1>2 DEF Ordered
<1>5. ASSUME Ordered PROVE HasCursor' /\ CursorCuts'
    <2>1. HasCursor /\ CursorCuts BY <1>5
    <2>2. ASSUME Fail, phase \in {"new", "more"} PROVE HasCursor' /\ CursorCuts'
        <3>1. \A r \in steady : times[r] <= 1 BY <2>1, <2>2 DEF CursorCuts, Continued
        <3> QED BY <2>2, <3>1 DEF Fail, HasCursor, CursorCuts, Continued
    <2>3. CASE Request
        <3>1. PICK n \in 0 .. RequestLimit : \E reply \in [1 .. n -> RowsAskedFor] :
                /\ IsAnswer(reply, RowsAskedFor, RequestLimit)
                /\ IF Drifted(reply) THEN Fail ELSE ShowPage(reply)
            BY <2>3 DEF Request
        <3>2. PICK reply \in [1 .. n -> RowsAskedFor] :
                /\ IsAnswer(reply, RowsAskedFor, RequestLimit)
                /\ IF Drifted(reply) THEN Fail ELSE ShowPage(reply)
            BY <3>1
        <3>3. CASE Fail BY <2>2, <2>3, <3>3 DEF Request
        <3>4. CASE ~Drifted(reply) /\ ShowPage(reply)
            <4>1. n \in Nat OBVIOUS
            <4>2. AsksForMore BY <2>3, LimitTyped, SkillTyped DEF Request, AsksForMore, Skip, SkillContracts
            <4>3. Replied(n, reply) BY <1>5, <2>1, <2>3, <3>2, <3>4, <4>1 DEF Replied, Request, CursorCuts
            <4> QED BY <2>1, <3>4, <4>2, <4>3, PageCut
        <3> QED BY <3>2, <3>3, <3>4
    <2>4. CASE Exhausted BY <2>2, <2>4 DEF Exhausted
    <2>5. ASSUME NEW r \in Rows, Change(r) PROVE HasCursor' /\ CursorCuts'
        <3>1. /\ cursor' = cursor /\ shown' = shown /\ times' = times /\ phase' = phase
              /\ steady' = steady \ {r}
            BY <2>5 DEF Change
        <3>2. HasCursor' BY <1>2, <2>1, <3>1 DEF HasCursor, Continued, Tuples
        <3>3. ASSUME NEW q \in steady' PROVE Reached(q)' <=> Reached(q)
            <4>1. q \in Listed /\ q # r BY <3>1 DEF TypeOK
            <4>2. table'[q] = table[q] BY <2>5, <4>1, ListedTyped DEF Change
            <4>3. SortTuple(q)' = SortTuple(q) BY <1>2, <4>2 DEF SortTuple, Fact
            <4> QED BY <1>2, <3>1, <4>3 DEF Reached
        <3>4. CursorCuts' BY <2>1, <3>1, <3>3 DEF CursorCuts, Continued
        <3> QED BY <3>2, <3>4
    <2>6. CASE UNCHANGED vars
        <3>1. /\ skill' = skill /\ table' = table /\ cursor' = cursor /\ shown' = shown
              /\ times' = times /\ steady' = steady /\ phase' = phase
            BY <2>6 DEF vars
        <3>2. \A q \in steady : Reached(q)' <=> Reached(q)
            BY <3>1 DEF Reached, SortTuple, Fact
        <3> QED BY <2>1, <3>1, <3>2 DEF HasCursor, CursorCuts, Continued, Tuples
    <2> QED BY <2>3, <2>4, <2>5, <2>6 DEF Next
<1> QED BY <1>1, <1>3, <1>4, <1>5

(* PagesAddUp: whatever 1C does between the requests, a list of an accepted *)
(* keyset skill whose cursor part is joined by AND, or of a prefix skill    *)
(* that keeps the order it declares, shows each row that stays as it is     *)
(* once, and all of them by its end.  The cursor part itself is as the      *)
(* validator has compared it (SkillAccepted), the author only joins it.    *)
THEOREM ListsAddUp == Spec => []PagesAddUp
<1>1. Init => PageInv /\ AcceptedInv BY InitPage
<1>2. (PageInv /\ AcceptedInv) /\ [Next]_vars => (PageInv /\ AcceptedInv)' BY NextPage
<1>3. PageInv /\ AcceptedInv => PagesAddUp
    <2> SUFFICES ASSUME PageInv, AcceptedInv, QueryKept, NEW r \in steady
                 PROVE  times[r] <= 1 /\ (phase = "end" => times[r] = 1)
        BY DEF PagesAddUp
    <2>1. TypeOK BY DEF PageInv
    <2>2. CursorCuts BY <2>1, AcceptedIsOrdered DEF PageInv
    <2>3. phase \in {"new", "more", "end", "error"} BY <2>1 DEF TypeOK
    <2> QED BY <2>2, <2>3 DEF CursorCuts, Continued
<1> QED BY <1>1, <1>2, <1>3, PTL DEF Spec

(***************************************************************************)
(* While nothing changes                                                   *)
(***************************************************************************)

(* The first k rows of the list. *)
InitialRows(rows, k) ==
    /\ k \in Nat /\ rows \in [1 .. k -> Listed]
    /\ \A i, j \in 1 .. k : i < j =>
          Precedes(skill.sort, SortTuple(rows[i]), SortTuple(rows[j]))
    /\ \A r \in Listed :
          \/ \E i \in 1 .. k : r = rows[i]
          \/ \A i \in 1 .. k : Precedes(skill.sort, SortTuple(rows[i]), SortTuple(r))

(* Two beginnings of the list do not diverge. *)
LEMMA NoDivergence ==
    ASSUME TypeOK, Ordered, NEW f, NEW a, NEW g, NEW b, InitialRows(f, a), InitialRows(g, b),
           NEW i \in 1 .. a, i \in 1 .. b, \A j \in 1 .. (i - 1) : f[j] = g[j]
    PROVE  ~Precedes(skill.sort, SortTuple(f[i]), SortTuple(g[i]))
<1> SUFFICES ASSUME Precedes(skill.sort, SortTuple(f[i]), SortTuple(g[i])) PROVE FALSE
    OBVIOUS
<1>1. /\ a \in Nat /\ f \in [1 .. a -> Listed] /\ b \in Nat /\ g \in [1 .. b -> Listed]
      /\ \A m, j \in 1 .. a : m < j => Precedes(skill.sort, SortTuple(f[m]), SortTuple(f[j]))
      /\ \A m, j \in 1 .. b : m < j => Precedes(skill.sort, SortTuple(g[m]), SortTuple(g[j]))
    BY DEF InitialRows
<1>2. f[i] \in Listed /\ g[i] \in Listed BY <1>1
<1>3. /\ SortTuple(f[i]) \in Tuples(skill.sort) /\ SortTuple(g[i]) \in Tuples(skill.sort)
      /\ skill.sort \in Seq(SortItem)
    BY <1>2, TupleTyped, SkillTyped
<1>4. ~Precedes(skill.sort, SortTuple(g[i]), SortTuple(f[i]))
    BY <1>3, OrderStrict, OrderTransitive
<1>5. PICK m \in 1 .. b : f[i] = g[m]
    <2>1. \/ \E m \in 1 .. b : f[i] = g[m]
          \/ \A m \in 1 .. b : Precedes(skill.sort, SortTuple(g[m]), SortTuple(f[i]))
        BY <1>2 DEF InitialRows
    <2> QED BY <1>4, <2>1
<1>6. CASE m < i
    <2>1. m \in 1 .. (i - 1) /\ m \in 1 .. a BY <1>1, <1>6
    <2>2. f[m] = f[i] BY <1>5, <2>1
    <2>3. Precedes(skill.sort, SortTuple(f[m]), SortTuple(f[i])) BY <1>1, <1>6, <2>1
    <2> QED BY <1>3, <2>2, <2>3, OrderStrict
<1>7. CASE m = i BY <1>3, <1>5, <1>7, OrderStrict
<1>8. CASE i < m BY <1>1, <1>4, <1>5, <1>8
<1> QED BY <1>1, <1>6, <1>7, <1>8

LEMMA SameBeginning ==
    ASSUME TypeOK, Ordered, NEW f, NEW a, NEW g, NEW b, InitialRows(f, a), InitialRows(g, b),
           a <= b
    PROVE  \A i \in 1 .. a : f[i] = g[i]
<1>1. a \in Nat /\ f \in [1 .. a -> Listed] /\ b \in Nat /\ g \in [1 .. b -> Listed]
    BY DEF InitialRows
<1> DEFINE h == [i \in 1 .. a |-> g[i]]
<1>2. \A i \in 1 .. a : i \in 1 .. b /\ h[i] = g[i] BY <1>1
<1>3. f \in [1 .. a -> Nat] /\ h \in [1 .. a -> Nat] BY <1>1, ListedTyped
<1> HIDE DEF h
<1> SUFFICES ASSUME f # h PROVE FALSE BY <1>2
<1>4. PICK i \in 1 .. a : f[i] # h[i] /\ \A j \in 1 .. (i - 1) : f[j] = h[j]
    BY <1>1, <1>3, FirstDifference
<1>5. \A j \in 1 .. (i - 1) : f[j] = g[j] /\ g[j] = f[j] BY <1>1, <1>2, <1>4
<1>6. i \in 1 .. b /\ f[i] # g[i] /\ f[i] \in Listed /\ g[i] \in Listed
    BY <1>1, <1>2, <1>4
<1>7. ~Precedes(skill.sort, SortTuple(f[i]), SortTuple(g[i])) BY <1>5, <1>6, NoDivergence
<1>8. ~Precedes(skill.sort, SortTuple(g[i]), SortTuple(f[i])) BY <1>5, <1>6, NoDivergence
<1>9. SortTuple(f[i]) # SortTuple(g[i]) BY <1>6, TuplesDiffer
<1> QED BY <1>6, <1>7, <1>8, <1>9, OrderTotal, SkillTyped, TupleTyped

LEMMA SameRow ==
    ASSUME TypeOK, Ordered, NEW f, NEW a, NEW g, NEW b, InitialRows(f, a), InitialRows(g, b),
           NEW i, i \in 1 .. a, i \in 1 .. b
    PROVE  f[i] = g[i]
<1>1. a \in Nat /\ b \in Nat BY DEF InitialRows
<1>2. CASE a <= b BY <1>2, SameBeginning
<1>3. CASE b <= a
    <2>1. \A j \in 1 .. b : g[j] = f[j] BY <1>3, SameBeginning
    <2> QED BY <2>1
<1> QED BY <1>1, <1>2, <1>3

LEMMA ShorterLeavesOut ==
    ASSUME TypeOK, Ordered, NEW f, NEW a, NEW g, NEW b, InitialRows(f, a), InitialRows(g, b),
           b < a
    PROVE  \E r \in Listed : \A i \in 1 .. b : r # g[i]
<1>1. a \in Nat /\ b \in Nat /\ f \in [1 .. a -> Listed] BY DEF InitialRows
<1>2. b + 1 \in 1 .. a BY <1>1
<1>3. ASSUME NEW i \in 1 .. b, f[b + 1] = g[i] PROVE FALSE
    <2>1. i \in 1 .. a /\ i < b + 1 BY <1>1
    <2>2. f[i] = g[i] BY <2>1, SameRow
    <2>3. Precedes(skill.sort, SortTuple(f[i]), SortTuple(f[b + 1]))
        BY <1>2, <2>1 DEF InitialRows
    <2>4. f[i] \in Listed BY <1>1, <2>1
    <2> QED BY <1>3, <2>2, <2>3, <2>4, OrderStrict, TupleTyped, SkillTyped
<1> QED BY <1>1, <1>2, <1>3

(* All that a prefix skill may ever ask for. *)
Most == Smallest({MaxTotal, Maximum})

LEMMA PrefixLimit ==
    ASSUME TypeOK, skill.strategy = "prefix"
    PROVE  /\ Most \in Nat \ {0} /\ RequestLimit <= Most
           /\ RequestLimit = shown + PageSize + 1 \/ RequestLimit = Most
<1>1. /\ shown + PageSize + 1 \in Nat /\ MaxTotal \in Nat \ {0} /\ Maximum \in Nat \ {0}
    BY PagingAssumption DEF PagingAssumption, TypeOK
<1>2. {MaxTotal, Maximum} = {MaxTotal, Maximum, Maximum} OBVIOUS
<1>3. Most \in {MaxTotal, Maximum} /\ Most <= MaxTotal /\ Most <= Maximum
    BY <1>1, <1>2, SmallestIs DEF Most
<1>4. RequestLimit = Smallest({shown + PageSize + 1, MaxTotal, Maximum}) BY DEF RequestLimit
<1>5. /\ RequestLimit \in {shown + PageSize + 1, MaxTotal, Maximum}
      /\ RequestLimit <= MaxTotal /\ RequestLimit <= Maximum
    BY <1>1, <1>4, SmallestIs
<1> QED BY <1>1, <1>3, <1>5

(* As many rows are shown of a prefix as the list has up to its cursor. *)
RowsShown ==
    \E rows \in [1 .. shown -> Listed] :
        InitialRows(rows, shown) /\ cursor = SortTuple(rows[shown])

(* Something is left of a list that goes on, or nothing may be asked. *)
MoreToCome ==
    \/ \E r \in Listed : ~Reached(r)
    \/ skill.strategy = "prefix" /\ shown = Most

QuietInv ==
    Ordered /\ changes = 0 =>
        /\ \A r \in Rows \ Listed : times[r] = 0
        /\ phase # "new" => steady = Listed
        /\ Continued => MoreToCome
        /\ Continued /\ skill.strategy = "prefix" => RowsShown /\ shown <= Most
        /\ phase = "error" => skill.strategy = "prefix" /\ shown = Most

(* A reply begins the list. *)
LEMMA ReplyBegins ==
    ASSUME TypeOK, Ordered, RowsAskedFor = Listed, NEW n \in Nat,
           NEW reply \in [1 .. n -> RowsAskedFor], NEW limit, IsAnswer(reply, RowsAskedFor, limit)
    PROVE  InitialRows(reply, n)
<1>1. reply \in [1 .. n -> Listed] /\ Range(reply) = {reply[i] : i \in 1 .. n} BY ReplyTyped
<1>2. ASSUME NEW r \in Listed, r \notin Range(reply)
      PROVE  \A i \in 1 .. n : Precedes(skill.sort, SortTuple(reply[i]), SortTuple(r))
    BY <1>2, LeftOutIsLater
<1> QED BY <1>1, <1>2, ReplyIsSorted DEF InitialRows

(* Nothing drifts while nothing changes. *)
LEMMA NothingDrifts ==
    ASSUME PageInv, QuietInv, Ordered, changes = 0, AsksForMore,
           NEW n \in Nat, NEW reply \in [1 .. n -> RowsAskedFor],
           IsAnswer(reply, RowsAskedFor, RequestLimit)
    PROVE  ~Drifted(reply)
<1> SUFFICES ASSUME Drifted(reply) PROVE FALSE OBVIOUS
<1>1. TypeOK /\ HasCursor /\ Continued BY DEF PageInv, Drifted
<1>2. MoreToCome BY <1>1 DEF QuietInv
<1>3. Len(reply) = n /\ DOMAIN reply = 1 .. n /\ Range(reply) = {reply[i] : i \in 1 .. n}
    BY <1>1, ReplyTyped
<1>4. RequestLimit \in Nat \ {0} /\ Skip \in Nat BY <1>1, LimitTyped, RequestTyped
<1>5. skill.strategy \in {"keyset", "prefix"} BY <1>1, SkillTyped DEF SkillContracts
<1>6. CASE skill.strategy = "keyset"
    <2>1. n = 0 BY <1>3, <1>4, <1>6 DEF Drifted, Skip
    <2>2. PICK r \in Listed : ~Reached(r) BY <1>2, <1>6 DEF MoreToCome
    <2>3. Precedes(skill.sort, cursor, SortTuple(r)) BY <1>1, <2>2, NotReachedAfter DEF HasCursor
    <2>4. r \in RowsAskedFor BY <1>1, <1>6, <2>2, <2>3, AskedAfterCursor
    <2>5. r \notin Range(reply) BY <1>3, <2>1
    <2>6. n = RequestLimit BY <1>1, <2>4, <2>5, LeftOutIsLater
    <2> QED BY <1>4, <2>1, <2>6
<1>7. CASE skill.strategy = "prefix"
    <2>1. Skip = shown /\ shown # 0 /\ shown \in Nat /\ shown < RequestLimit
        BY <1>1, <1>4, <1>7 DEF Skip, HasCursor, AsksForMore
    <2>2. PICK rows \in [1 .. shown -> Listed] :
                InitialRows(rows, shown) /\ cursor = SortTuple(rows[shown])
        BY <1>1, <1>7 DEF QuietInv, RowsShown
    <2>3. RowsAskedFor = Listed BY <1>1, <1>7, AskedForAll
    <2>4. InitialRows(reply, n) BY <1>1, <2>3, ReplyBegins
    <2>5. \A r \in Listed : r \notin Range(reply) => n = RequestLimit
        BY <1>1, <2>3, LeftOutIsLater
    <2>6. shown <= n
        <3> SUFFICES ASSUME n < shown PROVE FALSE BY <2>1
        <3>1. PICK r \in Listed : \A i \in 1 .. n : r # reply[i]
            BY <1>1, <2>2, <2>4, ShorterLeavesOut
        <3>2. r \notin Range(reply) BY <1>3, <3>1
        <3>3. n = RequestLimit BY <2>5, <3>2
        <3> QED BY <1>4, <2>1, <3>3
    <2>7. reply[shown] = rows[shown]
        <3>1. shown \in 1 .. shown /\ shown \in 1 .. n BY <2>1, <2>6
        <3> QED BY <1>1, <2>2, <2>4, <3>1, SameRow
    <2>8. n = shown BY <1>3, <2>1, <2>2, <2>6, <2>7 DEF Drifted
    <2>9. \A r \in Listed : \E i \in 1 .. n : r = reply[i]
        BY <1>3, <1>4, <2>1, <2>5, <2>8
    <2>10. \A r \in Listed : Reached(r)
        <3>1. SUFFICES ASSUME NEW r \in Listed PROVE Reached(r) OBVIOUS
        <3>2. PICK i \in 1 .. n : r = reply[i] BY <2>9
        <3>3. CASE i = n BY <2>2, <2>7, <2>8, <3>2, <3>3 DEF Reached
        <3>4. CASE i < n
            <4>1. n \in 1 .. n BY <2>1, <2>8
            <4>2. Precedes(skill.sort, SortTuple(reply[i]), SortTuple(reply[n]))
                BY <2>4, <3>4, <4>1 DEF InitialRows
            <4> QED BY <2>2, <2>7, <2>8, <3>2, <4>2 DEF Reached
        <3> QED BY <3>3, <3>4
    <2>11. shown = Most BY <1>2, <2>10 DEF MoreToCome
    <2> QED BY <1>1, <1>4, <1>7, <2>1, <2>11, PrefixLimit
<1> QED BY <1>5, <1>6, <1>7

(* A list that goes on has its shown rows and something left. *)
LEMMA PageLeaves ==
    ASSUME NEW n, NEW reply, Replied(n, reply), AsksForMore, ShowPage(reply), phase' = "more",
           Continued /\ skill.strategy = "prefix" => shown <= Most
    PROVE  /\ MoreToCome'
           /\ skill.strategy = "prefix" => RowsShown' /\ shown' <= Most
<1> USE DEF Replied
<1>0. PICK last : last = LastIndex(n) OBVIOUS
<1>1. /\ last \in Nat /\ last <= n /\ Skip \in Nat /\ Skip < last /\ last \in 1 .. n
      /\ \A i \in 1 .. n : reply[i] \in ShownRows(reply) <=> Skip < i /\ i <= last
      /\ ShownRows(reply) \subseteq Range(reply)
      /\ cursor' = SortTuple(reply[last])
      /\ Range(reply) # RowsAskedFor \/ n > last \/ n = RequestLimit
    BY <1>0, PageEnds
<1>2. n > last => last = Skip + PageSize BY <1>0 DEF LastIndex
<1>3. n = last => n <= Skip + PageSize
    BY <1>0, <1>1, PagingAssumption DEF LastIndex, PagingAssumption
<1>4. /\ skill' = skill /\ table' = table
      /\ shown' = shown + Cardinality(ShownRows(reply))
    BY DEF ShowPage
<1>5. /\ DOMAIN reply = 1 .. n /\ Range(reply) = {reply[i] : i \in 1 .. n}
      /\ \A i \in 1 .. n : reply[i] \in Listed
      /\ Range(reply) \subseteq RowsAskedFor
    BY ReplyTyped
<1>6. \A i, j \in 1 .. n : i < j =>
            Precedes(skill.sort, SortTuple(reply[i]), SortTuple(reply[j]))
    BY ReplyIsSorted
<1>7. Listed' = Listed /\ \A r : SortTuple(r)' = SortTuple(r) BY <1>4, ListKept
<1>8. skill.strategy \in {"keyset", "prefix"} /\ skill.sort \in Seq(SortItem)
    BY SkillTyped DEF SkillContracts
<1>9. PageSize \in Nat \ {0} /\ RequestLimit \in Nat /\ shown \in Nat
    BY LimitTyped, PagingAssumption DEF PagingAssumption, TypeOK
<1>10. \A r \in Listed : Precedes(skill.sort, SortTuple(reply[last]), SortTuple(r)) => ~Reached(r)'
    <2> SUFFICES ASSUME NEW r \in Listed,
                        Precedes(skill.sort, SortTuple(reply[last]), SortTuple(r))
                 PROVE  ~Reached(r)'
        OBVIOUS
    <2>1. SortTuple(r) \in Tuples(skill.sort) /\ SortTuple(reply[last]) \in Tuples(skill.sort)
        BY <1>1, <1>5, TupleTyped
    <2>2. Reached(r)' <=> \/ SortTuple(r) = SortTuple(reply[last])
                          \/ Precedes(skill.sort, SortTuple(r), SortTuple(reply[last]))
        BY <1>1, <1>4, <1>7 DEF Reached
    <2> QED BY <1>8, <2>1, <2>2, OrderStrict, OrderTransitive
<1>11. skill.strategy = "prefix" => shown' = last
    <2> SUFFICES ASSUME skill.strategy = "prefix" PROVE shown' = last OBVIOUS
    <2>1. Skip = shown BY DEF Skip
    <2> DEFINE I == (Skip + 1) .. last
               f == [i \in I |-> reply[i]]
    <2>2. I \subseteq 1 .. n BY <1>1
    <2>3. \A i, j \in 1 .. n : reply[i] = reply[j] => i = j BY <1>5 DEF IsAnswer
    <2>4. ShownRows(reply) = {reply[i] : i \in I}
        <3>1. \A i \in 1 .. n : i \in I <=> Skip < i /\ i <= last BY <1>1
        <3>2. \A r \in ShownRows(reply) : \E i \in 1 .. n : r = reply[i] BY <1>1, <1>5
        <3> QED BY <1>1, <2>2, <3>1, <3>2
    <2>5. f \in Surjection(I, ShownRows(reply)) BY <2>4 DEF Surjection
    <2>6. f \in Injection(I, ShownRows(reply))
        <3>1. f \in [I -> ShownRows(reply)] BY <2>4
        <3>2. \A i, j \in I : f[i] = f[j] => i = j BY <2>2, <2>3
        <3> QED BY <3>1, <3>2 DEF Injection, IsInjective
    <2>7. IsFiniteSet(I) /\ Cardinality(I) = last - Skip
        <3>1. Skip + 1 \in Int /\ last \in Int /\ ~(Skip + 1 > last) BY <1>1
        <3>2. IsFiniteSet(I) /\ Cardinality(I) = last - (Skip + 1) + 1 BY <3>1, FS_Interval
        <3> QED BY <1>1, <3>2
    <2>8. Cardinality(ShownRows(reply)) = last - Skip BY <2>5, <2>6, <2>7, FS_Surjection
    <2> QED BY <1>1, <1>4, <1>9, <2>1, <2>8
<1>12. ASSUME skill.strategy = "prefix"
       PROVE  RowsShown' /\ shown' <= Most
    <2>1. RowsAskedFor = Listed BY <1>12, AskedForAll
    <2>2. InitialRows(reply, n) BY <2>1, ReplyBegins
    <2> DEFINE rows == [i \in 1 .. last |-> reply[i]]
    <2>3. rows \in [1 .. last -> Listed] BY <1>1, <1>5
    <2>4. \A i \in 1 .. last : i \in 1 .. n /\ rows[i] = reply[i] BY <1>1
    <2> HIDE DEF rows
    <2>5. \A i, j \in 1 .. last : i < j =>
            Precedes(skill.sort, SortTuple(rows[i]), SortTuple(rows[j]))
        BY <1>6, <2>4
    <2>6. ASSUME NEW r \in Listed
          PROVE  \/ \E i \in 1 .. last : r = rows[i]
                 \/ \A i \in 1 .. last : Precedes(skill.sort, SortTuple(rows[i]), SortTuple(r))
        <3>1. CASE \E i \in 1 .. n : r = reply[i]
            <4>1. PICK i \in 1 .. n : r = reply[i] BY <3>1
            <4>2. CASE i <= last BY <1>1, <2>4, <4>1, <4>2
            <4>3. CASE i > last
                <5>1. \A j \in 1 .. last : j < i BY <1>1, <4>3
                <5> QED BY <1>6, <2>4, <4>1, <5>1
            <4> QED BY <1>1, <4>2, <4>3
        <3>2. CASE \A i \in 1 .. n : Precedes(skill.sort, SortTuple(reply[i]), SortTuple(r))
            BY <2>4, <3>2
        <3> QED BY <2>2, <3>1, <3>2 DEF InitialRows
    <2>7. InitialRows(rows, last)'
        <3>1. InitialRows(rows, last) BY <1>1, <2>3, <2>5, <2>6 DEF InitialRows
        <3> QED BY <1>4, <1>7, <3>1 DEF InitialRows
    <2>8. cursor' = SortTuple(rows[last])'
        <3>1. last \in 1 .. last BY <1>1
        <3>2. rows[last] = reply[last] BY <2>4, <3>1
        <3> QED BY <1>1, <1>4, <3>2 DEF SortTuple, Fact
    <2>9. RowsShown' BY <1>7, <1>11, <1>12, <2>3, <2>7, <2>8 DEF RowsShown
    <2>10. n <= RequestLimit BY DEF Replied
    <2> QED BY <1>1, <1>9, <1>11, <1>12, <2>9, <2>10, PrefixLimit
<1>13. MoreToCome'
    <2>1. CASE n > last
        <3>1. last + 1 \in 1 .. n /\ last < last + 1 BY <1>1, <2>1
        <3>2. Precedes(skill.sort, SortTuple(reply[last]), SortTuple(reply[last + 1]))
            BY <1>1, <1>6, <3>1
        <3> QED BY <1>5, <1>7, <1>10, <3>1, <3>2 DEF MoreToCome
    <2>2. CASE Range(reply) # RowsAskedFor
        <3>1. PICK r \in RowsAskedFor : r \notin Range(reply) BY <1>5, <2>2
        <3>2. r \in Listed BY <3>1, RequestTyped
        <3>3. Precedes(skill.sort, SortTuple(reply[last]), SortTuple(r))
            BY <1>1, <3>1, LeftOutIsLater
        <3> QED BY <1>7, <1>10, <3>2, <3>3 DEF MoreToCome
    <2>3. CASE n = last /\ n = RequestLimit
        <3>1. n <= Skip + PageSize BY <1>3, <2>3
        <3>2. skill.strategy = "prefix"
            <4>1. SUFFICES ASSUME skill.strategy = "keyset" PROVE FALSE BY <1>8
            <4> QED BY <1>9, <2>3, <3>1, <4>1 DEF RequestLimit, Skip
        <3>3. Skip = shown BY <3>2 DEF Skip
        <3>4. RequestLimit = Most BY <1>9, <2>3, <3>1, <3>2, <3>3, PrefixLimit
        <3> QED BY <1>4, <1>11, <2>3, <3>2, <3>4 DEF MoreToCome, Most
    <2> QED BY <1>1, <2>1, <2>2, <2>3
<1> QED BY <1>12, <1>13

LEMMA NextQuiet ==
    ASSUME PageInv, QuietInv, [Next]_vars
    PROVE  QuietInv'
<1>1. TypeOK BY DEF PageInv
<1>2. skill' = skill BY DEF Next, Request, Exhausted, Fail, ShowPage, Change, vars
<1>3. changes' \in {changes, changes + 1} /\ changes \in Nat
    <2>1. changes \in Nat BY <1>1 DEF TypeOK
    <2>2. Request \/ Exhausted => changes' = changes BY DEF Request, Exhausted, Fail, ShowPage
    <2>3. (\E r \in Rows : Change(r)) => changes' = changes + 1 BY DEF Change
    <2> QED BY <2>1, <2>2, <2>3 DEF Next, vars
<1> SUFFICES ASSUME Ordered', changes' = 0
             PROVE  /\ \A r \in (Rows \ Listed)' : times'[r] = 0
                    /\ phase' # "new" => steady' = Listed'
                    /\ Continued' => MoreToCome'
                    /\ Continued' /\ skill'.strategy = "prefix" => RowsShown' /\ shown' <= Most
                    /\ phase' = "error" => skill'.strategy = "prefix" /\ shown' = Most
    BY DEF QuietInv, Most
<1>4. changes = 0 /\ Ordered BY <1>2, <1>3 DEF Ordered
<1>5. HasCursor /\ CursorCuts BY <1>4 DEF PageInv
<1>6. /\ \A r \in Rows \ Listed : times[r] = 0
      /\ phase # "new" => steady = Listed
      /\ Continued => MoreToCome
      /\ Continued /\ skill.strategy = "prefix" => RowsShown /\ shown <= Most
      /\ phase = "error" => skill.strategy = "prefix" /\ shown = Most
    BY <1>4 DEF QuietInv
<1>7. CASE Request
    <2>1. PICK n \in 0 .. RequestLimit : \E reply \in [1 .. n -> RowsAskedFor] :
            /\ IsAnswer(reply, RowsAskedFor, RequestLimit)
            /\ IF Drifted(reply) THEN Fail ELSE ShowPage(reply)
        BY <1>7 DEF Request
    <2>2. PICK reply \in [1 .. n -> RowsAskedFor] :
            /\ IsAnswer(reply, RowsAskedFor, RequestLimit)
            /\ IF Drifted(reply) THEN Fail ELSE ShowPage(reply)
        BY <2>1
    <2>3. n \in Nat OBVIOUS
    <2>4. AsksForMore
        BY <1>1, <1>7, LimitTyped, SkillTyped DEF Request, AsksForMore, Skip, SkillContracts
    <2>5. ~Drifted(reply) BY <1>4, <2>2, <2>3, <2>4, NothingDrifts
    <2>6. ShowPage(reply) BY <2>2, <2>5
    <2>7. Replied(n, reply)
        BY <1>1, <1>4, <1>5, <1>7, <2>2, <2>3, <2>5 DEF Replied, Request, CursorCuts
    <2>8. Listed' = Listed /\ phase' \in {"more", "end"} BY <2>6, ListKept DEF ShowPage
    <2>9. steady' = Listed'
        <3>1. phase \in {"new", "more"} BY <1>7 DEF Request
        <3> QED BY <1>6, <2>6, <2>8, <3>1 DEF ShowPage, Continued
    <2>10. \A r \in Rows \ Listed : times'[r] = 0
        <3>1. ShownRows(reply) \subseteq Listed BY <1>1, <1>4, <2>3, ReplyTyped DEF ShownRows
        <3> QED BY <1>6, <2>6, <3>1 DEF ShowPage
    <2>11. CASE phase' = "more"
        <3>1. /\ MoreToCome'
              /\ skill.strategy = "prefix" => RowsShown' /\ shown' <= Most
            BY <1>6, <2>4, <2>6, <2>7, <2>11, PageLeaves
        <3> QED BY <1>2, <2>8, <2>9, <2>10, <2>11, <3>1 DEF Continued
    <2>12. CASE phase' = "end" BY <2>8, <2>9, <2>10, <2>12 DEF Continued
    <2> QED BY <2>8, <2>11, <2>12
<1>8. CASE Exhausted
    <2>1. skill.strategy = "prefix" /\ RequestLimit <= shown /\ phase \in {"new", "more"}
        BY <1>8 DEF Exhausted
    <2>2. RequestLimit \in Nat \ {0} /\ shown \in Nat /\ PageSize \in Nat
        BY <1>1, LimitTyped, PagingAssumption DEF PagingAssumption, TypeOK
    <2>3. phase = "more"
        <3>1. phase = "new" => shown = 0 BY <1>5 DEF CursorCuts
        <3> QED BY <2>1, <2>2, <3>1
    <2>4. Most \in Nat /\ RequestLimit = Most /\ shown <= Most
        BY <1>1, <1>6, <2>1, <2>2, <2>3, PrefixLimit DEF Continued
    <2>5. shown = Most BY <2>1, <2>2, <2>4
    <2> QED BY <1>6, <1>8, <2>1, <2>3, <2>5, ListKept DEF Exhausted, Fail, Continued
<1>9. ASSUME NEW r \in Rows, Change(r) PROVE FALSE BY <1>3, <1>4, <1>9 DEF Change
<1>10. CASE UNCHANGED vars
    <2>1. /\ skill' = skill /\ table' = table /\ cursor' = cursor /\ shown' = shown
          /\ times' = times /\ steady' = steady /\ phase' = phase
        BY <1>10 DEF vars
    <2>2. Listed' = Listed /\ \A r : SortTuple(r)' = SortTuple(r) BY <2>1, ListKept
    <2>3. MoreToCome' <=> MoreToCome BY <2>1, <2>2 DEF MoreToCome, Reached, Most
    <2>4. RowsShown' <=> RowsShown BY <2>1, <2>2 DEF RowsShown, InitialRows
    <2> QED BY <1>6, <2>1, <2>2, <2>3, <2>4 DEF Continued
<1> QED BY <1>7, <1>8, <1>9, <1>10 DEF Next

(* QuietListIsWhole: as long as nothing changes, no such list repeats or    *)
(* omits a row, and none fails but a prefix of which all that may be asked  *)
(* for has been shown.                                                     *)
THEOREM QuietListsAreWhole == Spec => []QuietListIsWhole
<1>1. Init => PageInv /\ AcceptedInv /\ QuietInv
    <2> SUFFICES ASSUME Init PROVE PageInv /\ AcceptedInv /\ QuietInv OBVIOUS
    <2>1. QuietInv BY DEF Init, QuietInv, Continued
    <2> QED BY <2>1, InitPage
<1>2. (PageInv /\ AcceptedInv /\ QuietInv) /\ [Next]_vars
        => (PageInv /\ AcceptedInv /\ QuietInv)'
    BY NextPage, NextQuiet
<1>3. PageInv /\ AcceptedInv /\ QuietInv => QuietListIsWhole
    <2> SUFFICES ASSUME PageInv, AcceptedInv, QuietInv, QueryKept, changes = 0
                 PROVE  /\ \A r \in Rows : times[r] <= 1
                        /\ phase = "end" => \A r \in Listed : times[r] = 1
                        /\ phase = "error" => skill.strategy = "prefix" /\ shown = Most
        BY DEF QuietListIsWhole, Most
    <2>1. TypeOK /\ Ordered BY AcceptedIsOrdered DEF PageInv
    <2>2. CursorCuts BY <2>1 DEF PageInv
    <2>3. phase \in {"new", "more", "end", "error"} /\ Listed \subseteq Rows BY <2>1, ListedTyped DEF TypeOK
    <2>4. /\ \A r \in Rows \ Listed : times[r] = 0
          /\ phase # "new" => steady = Listed
          /\ phase = "error" => skill.strategy = "prefix" /\ shown = Most
        BY <2>1 DEF QuietInv
    <2>5. ASSUME NEW r \in Rows PROVE times[r] <= 1
        <3>1. CASE r \notin Listed BY <2>4, <3>1
        <3>2. CASE phase = "new" BY <2>2, <3>2 DEF CursorCuts
        <3>3. CASE r \in steady BY <2>2, <2>3, <3>3 DEF CursorCuts, Continued
        <3> QED BY <2>4, <3>1, <3>2, <3>3
    <2> QED BY <2>2, <2>4, <2>5 DEF CursorCuts
<1> QED BY <1>1, <1>2, <1>3, PTL DEF Spec
=============================================================================
