------------------------- MODULE ContextSlotsProofs -------------------------
(***************************************************************************)
(* For any sessions, turns, plans and exports: the generations of a slot   *)
(* key chain, a turn uses what was active when it started, a question      *)
(* about a parameter offers what stands while it can be answered, a slot   *)
(* ends for a cause, and an answered parameter is not asked about again.   *)
(*                                                                         *)
(* The argument: a turn works alone in its session (OneWorks) and nothing  *)
(* of the session is asked meanwhile (AskedByNobody); whatever takes a     *)
(* slot from the active ones notes the version at which it did             *)
(* (SlotStep) and either moves that version past every reader, or was due, *)
(* or has found the origin without its evidence.                           *)
(***************************************************************************)
EXTENDS ContextSlots, FiniteSetTheorems, TLAPS

(***************************************************************************)
(* The invariant                                                           *)
(***************************************************************************)
IsIssued(slots, h) == slots[h].status # "none"

(* Handles are issued in order. *)
IssuedUpTo(slots, k) == \A h \in Handles : IsIssued(slots, h) <=> h <= k

(* The rows of the store: an issued slot is of a session, a key and a turn, *)
(* was numbered among those before it and is replaced by an issued one.    *)
Rows(slots) ==
    /\ slots \in [Handles -> Slots]
    /\ \A h \in Handles :
          IF slots[h].status = "none" THEN slots[h].session = None
          ELSE /\ slots[h].session \in Sessions /\ slots[h].key \in Keys
               /\ slots[h].origin \in Turns
               /\ slots[h].generation >= 1 /\ slots[h].generation <= h
               /\ slots[h].replacedBy # 0 => IsIssued(slots, slots[h].replacedBy)

Chain(slots) ==
    \A g, h \in Handles :
        IsIssued(slots, g) /\ IsIssued(slots, h)
        /\ slots[g].session = slots[h].session /\ slots[g].key = slots[h].key =>
            /\ slots[g].generation = slots[h].generation => g = h
            /\ slots[g].status = "active" => slots[h].generation <= slots[g].generation
            /\ slots[g].replacedBy = h => slots[h].generation = slots[g].generation + 1

StoreInv ==
    /\ Rows(slot) /\ Chain(slot)
    /\ \E k \in 0 .. MaxHandles : IssuedUpTo(slot, k)

Works(t) == turn[t].at \in {"planning", "executing"}

(* The origin of a slot has ended, on a catalog that exists. *)
OriginsEnded ==
    \A h \in Handles : IsIssued(slot, h) =>
        turn[slot[h].origin].at = "done" /\ ProducerKnown(slot[h].origin)

OneWorks ==
    \A t, u \in Turns :
        Works(t) /\ Works(u) /\ turn[t].session = turn[u].session => t = u

AskedByNobody ==
    \A t \in Turns : Works(t) => question[turn[t].session].kind = "none"

(* What may happen to a slot without a move of the version. *)
Stands(slots, turns, h) ==
    slots[h].status \in {"active", "expired"} \/ ~turns[slots[h].origin].evidence

(* What a working turn has read was active at its version, and stands while *)
(* the version does.                                                       *)
FactsHold ==
    \A t \in Turns : Works(t) =>
        \A h \in turn[t].facts :
            /\ slot[h].status = "active" \/ slot[h].closed >= turn[t].version
            /\ turn[t].version = version[turn[t].session] => Stands(slot, turn, h)

TurnInv ==
    /\ turn \in [Turns -> TurnStates]
    /\ \A t \in Turns :
          IF turn[t].at = "idle" THEN turn[t] = NotAccepted
          ELSE /\ turn[t].session \in Sessions /\ turn[t].revision \in 1 .. revision
               /\ turn[t].version <= version[turn[t].session]
               /\ \A h \in turn[t].facts : slot[h].session = turn[t].session

(* What a question about a parameter offers; of the choices of any other    *)
(* question nothing is known.                                              *)
Offered(q) == {h \in q.choices : q.kind = "context"}

QuestionInv ==
    /\ question \in [Sessions -> Questions]
    /\ \A s \in Sessions :
          /\ question[s].version <= version[s]
          /\ \A h \in Offered(question[s]) :
                /\ h \in Handles /\ slot[h].session = s
                /\ question[s].version = version[s] => Stands(slot, turn, h)

CounterInv ==
    /\ version \in [Sessions -> Nat]
    /\ time \in 0 .. MaxTime /\ revision \in 1 .. MaxRevision /\ faults \in 0 .. MaxFaults

IInv ==
    /\ StoreInv /\ OriginsEnded /\ OneWorks /\ AskedByNobody /\ FactsHold
    /\ TurnInv /\ QuestionInv /\ CounterInv

(***************************************************************************)
(* Least and greatest                                                      *)
(***************************************************************************)
LEMMA MinIsLeast ==
    ASSUME NEW S, S \subseteq Nat, S # {}
    PROVE  Min(S) \in S /\ \A y \in S : Min(S) <= y
<1> DEFINE less == {pair \in Nat \X Nat : pair[1] < pair[2]}
<1>1. IsWellFoundedOn(less, Nat) BY NatLessThanWellFounded DEF OpToRel
<1>2. \A x, y \in Nat : y < x => <<y, x>> \in less OBVIOUS
<1> HIDE DEF less
<1>3. PICK x \in S : \A y \in S : ~(<<y, x>> \in less) BY <1>1, WFMin
<1>4. \A y \in S : ~(y < x) BY <1>2, <1>3
<1>5. \A y \in S : x <= y BY <1>4
<1> QED BY <1>5 DEF Min

LEMMA MaxIsGreatest ==
    ASSUME NEW S, S \subseteq Nat, S # {}, NEW b \in Nat, \A x \in S : x <= b
    PROVE  Max(S) \in S /\ \A y \in S : y <= Max(S)
<1> DEFINE D == {d \in 0 .. b : b - d \in S}
<1>1. PICK x \in S : TRUE OBVIOUS
<1>2. b - x \in D BY <1>1
<1>3. D \subseteq Nat OBVIOUS
<1>4. \A y \in S : b - y \in D OBVIOUS
<1>5. \A d \in D : d \in 0 .. b /\ b - d \in S OBVIOUS
<1> HIDE DEF D
<1>6. Min(D) \in D /\ \A d \in D : Min(D) <= d BY <1>2, <1>3, MinIsLeast
<1>7. b - Min(D) \in S BY <1>5, <1>6
<1>8. \A y \in S : Min(D) <= b - y BY <1>4, <1>6
<1>9. \A y \in S : y <= b - Min(D) BY <1>5, <1>6, <1>8
<1>10. \E m \in S : \A y \in S : m >= y BY <1>7, <1>9
<1> QED BY <1>10 DEF Max

(***************************************************************************)
(* One committed slot                                                      *)
(***************************************************************************)
LEMMA NumberedNext ==
    ASSUME NEW slots, Rows(slots), NEW k \in 0 .. MaxHandles, IssuedUpTo(slots, k),
           MaxHandles \in Nat, NEW s \in Sessions, NEW key \in Keys, None \notin Sessions
    PROVE  LET gen == Generation(slots, s, key)
               same == {h \in Handles : slots[h].session = s /\ slots[h].key = key}
           IN  /\ gen \in 1 .. k + 1
               /\ \A h \in same : slots[h].generation < gen
               /\ gen = 1 \/ \E h \in same : gen = slots[h].generation + 1
<1> DEFINE same == {h \in Handles : slots[h].session = s /\ slots[h].key = key}
           S == {0} \cup {slots[h].generation : h \in same}
<1>1. ASSUME NEW h \in same
      PROVE  slots[h].generation \in Nat /\ slots[h].generation <= k
    <2>1. h \in Handles /\ slots[h].session = s OBVIOUS
    <2>2. slots[h].session # None BY <2>1
    <2>3. IsIssued(slots, h) BY <2>1, <2>2 DEF Rows, IsIssued
    <2>4. h <= k BY <2>1, <2>3 DEF IssuedUpTo
    <2>5. slots[h].generation <= h BY <2>1, <2>3 DEF Rows, IsIssued
    <2>6. slots[h] \in Slots BY <2>1 DEF Rows
    <2>7. slots[h].generation \in Nat BY <2>6 DEF Slots
    <2> QED BY <2>1, <2>4, <2>5, <2>7 DEF Handles
<1>2. S \subseteq Nat /\ S # {} /\ \A x \in S : x <= k BY <1>1
<1>3. \A h \in same : slots[h].generation \in S OBVIOUS
<1>4. \A x \in S : x = 0 \/ \E h \in same : x = slots[h].generation OBVIOUS
<1>5. Generation(slots, s, key) = 1 + Max(S) BY DEF Generation
<1> HIDE DEF S
<1>20. k \in Nat OBVIOUS
<1>6. Max(S) \in S /\ \A y \in S : y <= Max(S) BY <1>2, <1>20, MaxIsGreatest
<1>7. Max(S) \in Nat /\ Max(S) <= k BY <1>2, <1>6
<1>8. \A h \in same : slots[h].generation < 1 + Max(S) BY <1>1, <1>3, <1>6, <1>7
<1>9. Max(S) = 0 \/ \E h \in same : Max(S) = slots[h].generation BY <1>4, <1>6
<1>10. 1 + Max(S) = 1 \/ \E h \in same : 1 + Max(S) = slots[h].generation + 1
    BY <1>1, <1>7, <1>9
<1>11. 1 + Max(S) \in 1 .. k + 1 BY <1>7
<1> HIDE DEF same
<1>12. /\ Generation(slots, s, key) \in 1 .. k + 1
       /\ \A h \in same : slots[h].generation < Generation(slots, s, key)
       /\ \/ Generation(slots, s, key) = 1
          \/ \E h \in same : Generation(slots, s, key) = slots[h].generation + 1
    BY <1>5, <1>8, <1>10, <1>11
<1> QED BY <1>12 DEF same

LEMMA FreshIsNext ==
    ASSUME NEW slots, NEW k \in Nat, k < MaxHandles, IssuedUpTo(slots, k), MaxHandles \in Nat
    PROVE  FreshHandle(slots) = k + 1
<1> DEFINE S == {h \in Handles : slots[h].status = "none"}
<1>1. k + 1 \in S /\ \A h \in S : h \in Nat /\ k + 1 <= h
    BY DEF IssuedUpTo, IsIssued, Handles
<1>2. S \subseteq Nat /\ S # {} BY <1>1
<1> HIDE DEF S
<1>3. Min(S) \in S /\ \A y \in S : Min(S) <= y BY <1>2, MinIsLeast
<1>4. Min(S) = k + 1 BY <1>1, <1>3
<1> QED BY <1>4 DEF FreshHandle, S

(* The row of a slot that the next one of its key has replaced. *)
Replaced(old, new, h, s) ==
    /\ old[h].status = "active" /\ old[h].session = s
    /\ \E r \in Handles :
          /\ new[h] = [Close(old[h], "replaced", version[s]) EXCEPT !.replacedBy = r]
          /\ IsIssued(new, r) /\ new[r].session = s /\ new[r].key = old[h].key

(* What commits of turn t of session s do to the slots. *)
Keeps(old, new, t, s) ==
    \A h \in Handles :
        IF IsIssued(old, h) THEN new[h] = old[h] \/ Replaced(old, new, h, s)
        ELSE IsIssued(new, h) => new[h].origin = t /\ new[h].session = s

(* One commit keeps the rows well-formed, the chain and the order. *)
LEMMA OneCommit ==
    ASSUME ContextAssumption, NEW slots, Rows(slots), Chain(slots),
           NEW k \in Nat, k < MaxHandles, IssuedUpTo(slots, k),
           NEW t \in Turns, turn[t].session \in Sessions, version[turn[t].session] \in Nat,
           time \in 0 .. MaxTime,
           NEW contract \in Contract, NEW due \in 0 .. Never
    PROVE  LET new == Committed(slots, t, contract, due)
           IN  /\ Rows(new) /\ Chain(new) /\ IssuedUpTo(new, k + 1)
               /\ Keeps(slots, new, t, turn[t].session)
<1> DEFINE s == turn[t].session
           f == k + 1
           key == contract.key
           gen == Generation(slots, s, key)
           same == {h \in Handles : slots[h].session = s /\ slots[h].key = key}
           older == Previous(slots, s, key)
           row == [session |-> s, key |-> key, card |-> contract.card,
                   generation |-> gen,
                   status |-> IF contract.lifetime = "turn" THEN "expired" ELSE "active",
                   replacedBy |-> 0, origin |-> t, expires |-> ExpiryOf(contract, due),
                   closed |-> version[s]]
           over(h) == [Close(slots[h], "replaced", version[s]) EXCEPT !.replacedBy = f]
           new == Committed(slots, t, contract, due)
<1>1. /\ MaxHandles \in Nat /\ MaxTime \in Nat /\ None \notin Sessions /\ k \in 0 .. MaxHandles
      /\ key \in Keys /\ contract.card \in Cardinalities /\ contract.lifetime \in Lifetimes
      /\ s \in Sessions
    BY DEF ContextAssumption, Contract
<1>2. FreshHandle(slots) = f BY <1>1, FreshIsNext
<1>3. f \in Handles /\ f \in Nat /\ f # 0 BY <1>1 DEF Handles
<1>4. /\ gen \in 1 .. k + 1
      /\ \A h \in same : slots[h].generation < gen
      /\ gen = 1 \/ \E h \in same : gen = slots[h].generation + 1
    BY <1>1, NumberedNext
<1>5. new = [h \in Handles |-> IF h = f THEN row ELSE IF h \in older THEN over(h) ELSE slots[h]]
    BY <1>2 DEF Committed
<1>6. ExpiryOf(contract, due) \in 0 .. Never BY <1>1 DEF ExpiryOf, Never
<1>7. row \in Slots
    BY <1>1, <1>3, <1>4, <1>6 DEF Slots, Statuses
<1>8. \A h \in Handles : slots[h] \in Slots BY DEF Rows
<1>9. \A h \in older : /\ h \in Handles /\ slots[h].session = s /\ slots[h].key = key
                       /\ slots[h].status = "active"
    BY DEF Previous
<1>10. \A h \in Handles :
          slots[h].session = s /\ slots[h].key = key /\ slots[h].status = "active" => h \in older
    BY DEF Previous
<1>11. ASSUME NEW h \in older
       PROVE  /\ over(h) \in Slots
              /\ over(h).session = slots[h].session /\ over(h).key = slots[h].key
              /\ over(h).origin = slots[h].origin
              /\ over(h).generation = slots[h].generation
              /\ over(h).status = "replaced" /\ over(h).replacedBy = f
    <2>1. slots[h] \in Slots BY <1>8, <1>9
    <2> QED BY <2>1, <1>1, <1>3 DEF Close, Slots, Statuses
<1>12. \A h \in same : h \in Handles /\ slots[h].session = s /\ slots[h].key = key OBVIOUS
<1>13. \A h \in Handles : slots[h].session = s /\ slots[h].key = key => h \in same OBVIOUS
<1>14. /\ row.session = s /\ row.key = key /\ row.generation = gen /\ row.replacedBy = 0
       /\ row.origin = t /\ row.status # "none"
    OBVIOUS
<1> HIDE DEF row, over, older, same, gen, key, s
<1>15. new[f] = row BY <1>3, <1>5
<1>16. \A h \in older : h # f => new[h] = over(h) BY <1>5, <1>9
<1>17. \A h \in Handles : h # f /\ h \notin older => new[h] = slots[h] BY <1>5
<1>18. new \in [Handles -> Slots] BY <1>5, <1>7, <1>8, <1>11
<1> HIDE DEF new
<1>19. ~IsIssued(slots, f) BY <1>3 DEF IssuedUpTo
<1>20. f \notin older BY <1>9, <1>19 DEF IsIssued
<1>21. \A h \in Handles : h # f =>
          /\ IsIssued(new, h) <=> IsIssued(slots, h)
          /\ new[h].session = slots[h].session /\ new[h].key = slots[h].key
          /\ new[h].origin = slots[h].origin /\ new[h].generation = slots[h].generation
    <2> SUFFICES ASSUME NEW h \in Handles, h # f
                 PROVE  /\ IsIssued(new, h) <=> IsIssued(slots, h)
                        /\ new[h].session = slots[h].session /\ new[h].key = slots[h].key
                        /\ new[h].origin = slots[h].origin
                        /\ new[h].generation = slots[h].generation
        OBVIOUS
    <2>1. CASE h \in older BY <2>1, <1>9, <1>11, <1>16 DEF IsIssued
    <2>2. CASE h \notin older BY <2>2, <1>17 DEF IsIssued
    <2> QED BY <2>1, <2>2
<1>22. IsIssued(new, f) BY <1>14, <1>15 DEF IsIssued
<1>23. IssuedUpTo(new, k + 1)
    <2> SUFFICES ASSUME NEW h \in Handles PROVE IsIssued(new, h) <=> h <= k + 1
        BY DEF IssuedUpTo
    <2>1. h \in Nat BY DEF Handles
    <2>2. IsIssued(slots, h) <=> h <= k BY DEF IssuedUpTo
    <2> QED BY <2>1, <2>2, <1>21, <1>22
<1>24. Rows(new)
    <2> SUFFICES ASSUME NEW h \in Handles
                 PROVE  IF new[h].status = "none" THEN new[h].session = None
                        ELSE /\ new[h].session \in Sessions /\ new[h].key \in Keys
                             /\ new[h].origin \in Turns
                             /\ new[h].generation >= 1 /\ new[h].generation <= h
                             /\ new[h].replacedBy # 0 => IsIssued(new, new[h].replacedBy)
        BY <1>18 DEF Rows
    <2>1. CASE h = f
        BY <2>1, <1>1, <1>3, <1>4, <1>14, <1>15
    <2>2. CASE h # f /\ ~IsIssued(new, h)
        <3>1. ~IsIssued(slots, h) BY <2>2, <1>21
        <3>2. slots[h].session = None BY <3>1 DEF Rows, IsIssued
        <3> QED BY <2>2, <3>2, <1>21 DEF IsIssued
    <2>3. CASE h # f /\ IsIssued(new, h)
        <3>1. IsIssued(slots, h) BY <2>3, <1>21
        <3>2. /\ slots[h].session \in Sessions /\ slots[h].key \in Keys
              /\ slots[h].origin \in Turns
              /\ slots[h].generation >= 1 /\ slots[h].generation <= h
              /\ slots[h].replacedBy # 0 => IsIssued(slots, slots[h].replacedBy)
            BY <3>1 DEF Rows, IsIssued
        <3>3. new[h].replacedBy # 0 => IsIssued(new, new[h].replacedBy)
            <4>1. CASE h \in older BY <4>1, <2>3, <1>11, <1>16, <1>22
            <4>2. CASE h \notin older
                <5>1. new[h] = slots[h] BY <4>2, <2>3, <1>17
                <5>2. slots[h].replacedBy \in Handles \cup {0} BY <1>8 DEF Slots
                <5> QED BY <5>1, <5>2, <3>2, <1>21, <1>22
            <4> QED BY <4>1, <4>2
        <3> QED BY <2>3, <3>2, <3>3, <1>21 DEF IsIssued
    <2> QED BY <2>1, <2>2, <2>3
<1>25. Chain(new)
    <2> SUFFICES ASSUME NEW g \in Handles, NEW h \in Handles,
                        IsIssued(new, g), IsIssued(new, h),
                        new[g].session = new[h].session, new[g].key = new[h].key
                 PROVE  /\ new[g].generation = new[h].generation => g = h
                        /\ new[g].status = "active" => new[h].generation <= new[g].generation
                        /\ new[g].replacedBy = h =>
                              new[h].generation = new[g].generation + 1
        BY DEF Chain
    <2>1. \A x \in Handles : x # f => slots[x].generation \in Nat
        BY <1>8 DEF Slots
    <2>2. \A x \in Handles : x # f /\ new[x].session = s /\ new[x].key = key => x \in same
        BY <1>13, <1>21
    <2>3. gen \in Nat BY <1>4
    <2>4. CASE g = f /\ h = f BY <2>4, <2>3, <1>3, <1>14, <1>15
    <2>5. CASE g = f /\ h # f
        <3>1. h \in same BY <2>5, <2>2, <1>14, <1>15
        <3>2. new[h].generation < gen BY <3>1, <2>5, <1>4, <1>21
        <3>3. new[h].generation \in Nat BY <2>5, <2>1, <1>21
        <3>4. h # 0 BY DEF Handles
        <3> QED BY <2>3, <2>5, <3>2, <3>3, <3>4, <1>14, <1>15
    <2>6. CASE g # f /\ h = f
        <3>1. g \in same BY <2>6, <2>2, <1>14, <1>15
        <3>2. slots[g].session = s /\ slots[g].key = key /\ IsIssued(slots, g)
            BY <3>1, <2>6, <1>12, <1>21
        <3>3. slots[g].generation < gen /\ slots[g].generation \in Nat /\ slots[g].generation >= 1
            BY <3>1, <3>2, <2>1, <2>6, <1>4 DEF Rows, IsIssued
        <3>4. new[g].generation = slots[g].generation BY <2>6, <1>21
        <3>5. new[g].status # "active"
            <4>1. CASE g \in older BY <4>1, <2>6, <1>11, <1>16
            <4>2. CASE g \notin older BY <4>2, <2>6, <3>2, <1>10, <1>17
            <4> QED BY <4>1, <4>2
        <3>6. new[g].replacedBy = f => gen = slots[g].generation + 1
            <4> SUFFICES ASSUME new[g].replacedBy = f PROVE gen = slots[g].generation + 1
                OBVIOUS
            <4>1. g \in older
                <5> SUFFICES ASSUME g \notin older PROVE FALSE OBVIOUS
                <5>1. slots[g].replacedBy = f BY <2>6, <1>17
                <5>2. IsIssued(slots, f) BY <5>1, <3>2, <1>3 DEF Rows, IsIssued
                <5> QED BY <5>2, <1>19
            <4>2. slots[g].status = "active" BY <4>1, <1>9
            <4>3. PICK x \in same : gen = slots[x].generation + 1 BY <3>3, <1>4
            <4>4. x \in Handles /\ slots[x].session = s /\ slots[x].key = key BY <1>12
            <4>5. IsIssued(slots, x) BY <4>4, <1>1 DEF Rows, IsIssued
            <4>6. slots[x].generation <= slots[g].generation
                BY <3>2, <4>2, <4>4, <4>5 DEF Chain
            <4>7. slots[x].generation \in Nat BY <4>4, <1>8 DEF Slots
            <4> QED BY <3>3, <4>3, <4>6, <4>7
        <3> QED BY <2>3, <2>6, <3>3, <3>4, <3>5, <3>6, <1>14, <1>15
    <2>7. CASE g # f /\ h # f
        <3>1. /\ IsIssued(slots, g) /\ IsIssued(slots, h)
              /\ slots[g].session = slots[h].session /\ slots[g].key = slots[h].key
            BY <2>7, <1>21
        <3>2. /\ slots[g].generation = slots[h].generation => g = h
              /\ slots[g].status = "active" => slots[h].generation <= slots[g].generation
              /\ slots[g].replacedBy = h => slots[h].generation = slots[g].generation + 1
            BY <3>1 DEF Chain
        <3>3. new[g].generation = slots[g].generation /\ new[h].generation = slots[h].generation
            BY <2>7, <1>21
        <3>4. CASE g \in older
            <4>1. new[g].status = "replaced" /\ new[g].replacedBy = f
                BY <3>4, <2>7, <1>11, <1>16
            <4> QED BY <4>1, <2>7, <3>2, <3>3
        <3>5. CASE g \notin older BY <3>5, <2>7, <3>2, <3>3, <1>17
        <3> QED BY <3>4, <3>5
    <2> QED BY <2>4, <2>5, <2>6, <2>7
<1>26. Keeps(slots, new, t, s)
    <2> SUFFICES ASSUME NEW h \in Handles
                 PROVE  IF IsIssued(slots, h) THEN new[h] = slots[h] \/ Replaced(slots, new, h, s)
                        ELSE IsIssued(new, h) => new[h].origin = t /\ new[h].session = s
        BY DEF Keeps
    <2>1. CASE h = f BY <2>1, <1>14, <1>15, <1>19
    <2>2. CASE h # f /\ h \notin older BY <2>2, <1>17, <1>21
    <2>3. CASE h \in older
        <3>1. /\ slots[h].status = "active" /\ slots[h].session = s /\ slots[h].key = key
              /\ IsIssued(slots, h)
            BY <2>3, <1>9 DEF IsIssued
        <3>2. new[h] = over(h) BY <2>3, <1>16, <1>20
        <3>3. new[h] = [Close(slots[h], "replaced", version[s]) EXCEPT !.replacedBy = f]
            BY <3>2 DEF over
        <3>4. new[f].session = s /\ new[f].key = slots[h].key BY <3>1, <1>14, <1>15
        <3>5. Replaced(slots, new, h, s) BY <3>1, <3>3, <3>4, <1>3, <1>22 DEF Replaced
        <3> QED BY <3>1, <3>5
    <2> QED BY <2>1, <2>2, <2>3
<1> QED BY <1>23, <1>24, <1>25, <1>26 DEF new, s

(***************************************************************************)
(* All commits of a turn                                                   *)
(***************************************************************************)
Stages(f, m, t, exports, due) ==
    f = [n \in 0 .. m |->
            IF n = 0 THEN slot ELSE Committed(f[n - 1], t, exports[n], due)]

LEMMA StagesExist ==
    ASSUME NEW t, NEW exports, NEW due, NEW k \in Nat
    PROVE  \E f : Stages(f, k, t, exports, due)
<1> DEFINE bad == {m \in 0 .. k : ~\E f : Stages(f, m, t, exports, due)}
<1>1. ASSUME NEW m \in 0 .. k, m # 0, NEW f, Stages(f, m - 1, t, exports, due)
      PROVE  \E g : Stages(g, m, t, exports, due)
    <2> DEFINE last == Committed(f[m - 1], t, exports[m], due)
               g == [n \in 0 .. m |-> IF n = m THEN last ELSE f[n]]
    <2>1. m \in Nat /\ m - 1 \in 0 .. m /\ m - 1 # m BY <1>1
    <2>2. \A n \in 0 .. m - 1 :
              f[n] = IF n = 0 THEN slot ELSE Committed(f[n - 1], t, exports[n], due)
        BY <1>1 DEF Stages
    <2>3. g[m - 1] = f[m - 1] /\ g[m] = last BY <2>1
    <2>4. ASSUME NEW n \in 0 .. m
          PROVE  g[n] = IF n = 0 THEN slot ELSE Committed(g[n - 1], t, exports[n], due)
        <3>1. CASE n = m BY <3>1, <2>1, <2>3, <1>1
        <3>2. CASE n # m /\ n = 0 BY <3>2, <2>1, <2>2
        <3>3. CASE n # m /\ n # 0
            <4>1. n \in 0 .. m - 1 /\ n - 1 \in 0 .. m /\ n - 1 # m BY <3>3, <2>1
            <4>2. g[n] = f[n] /\ g[n - 1] = f[n - 1] BY <4>1, <3>3
            <4>3. f[n] = Committed(f[n - 1], t, exports[n], due) BY <4>1, <3>3, <2>2
            <4> QED BY <4>2, <4>3, <3>3
        <3> QED BY <3>1, <3>2, <3>3
    <2>5. g = [n \in 0 .. m |-> g[n]] OBVIOUS
    <2> HIDE DEF g
    <2>6. [n \in 0 .. m |-> g[n]] =
          [n \in 0 .. m |-> IF n = 0 THEN slot ELSE Committed(g[n - 1], t, exports[n], due)]
        BY <2>4
    <2>7. Stages(g, m, t, exports, due) BY <2>5, <2>6 DEF Stages
    <2> QED BY <2>7
<1>2. \E g : Stages(g, 0, t, exports, due)
    <2> DEFINE g == [n \in 0 .. 0 |-> slot]
    <2>1. \A n \in 0 .. 0 : n = 0 OBVIOUS
    <2>2. g = [n \in 0 .. 0 |->
                  IF n = 0 THEN slot ELSE Committed(g[n - 1], t, exports[n], due)]
        BY <2>1
    <2> QED BY <2>2 DEF Stages
<1>3. \A m \in bad : m \in 0 .. k /\ ~\E f : Stages(f, m, t, exports, due) OBVIOUS
<1>4. \A m \in 0 .. k : m \notin bad => \E f : Stages(f, m, t, exports, due) OBVIOUS
<1>5. bad \subseteq Nat OBVIOUS
<1> HIDE DEF bad
<1>6. bad = {}
    <2> SUFFICES ASSUME bad # {} PROVE FALSE OBVIOUS
    <2>1. PICK m : m = Min(bad) OBVIOUS
    <2>2. m \in bad /\ \A y \in bad : m <= y BY <2>1, <1>5, MinIsLeast
    <2>3. m \in 0 .. k /\ m # 0 BY <2>2, <1>2, <1>3
    <2>4. m - 1 \in 0 .. k /\ m - 1 \notin bad BY <2>2, <2>3
    <2>5. PICK f : Stages(f, m - 1, t, exports, due) BY <2>4, <1>4
    <2>6. \E g : Stages(g, m, t, exports, due) BY <2>3, <2>5, <1>1
    <2> QED BY <2>2, <2>6, <1>3
<1>7. k \in 0 .. k OBVIOUS
<1> QED BY <1>4, <1>6, <1>7

Leads(f, t, exports, due) ==
    /\ f[0] = slot
    /\ \A n \in 1 .. Len(exports) : f[n] = Committed(f[n - 1], t, exports[n], due)
    /\ Commits(t, exports, due) = f[Len(exports)]

LEMMA CommitsStaged ==
    ASSUME NEW t, NEW exports \in Seq(Contract), NEW due
    PROVE  \E f : Leads(f, t, exports, due)
<1> DEFINE after == CHOOSE f : Stages(f, Len(exports), t, exports, due)
<1>1. Len(exports) \in Nat OBVIOUS
<1>2. \E f : Stages(f, Len(exports), t, exports, due) BY <1>1, StagesExist
<1>3. Stages(after, Len(exports), t, exports, due) BY <1>2
<1>4. Commits(t, exports, due) = after[Len(exports)] BY DEF Commits, Stages
<1> HIDE DEF after
<1>5. \A n \in 0 .. Len(exports) :
          after[n] = IF n = 0 THEN slot ELSE Committed(after[n - 1], t, exports[n], due)
    BY <1>3 DEF Stages
<1>6. after[0] = slot BY <1>1, <1>5
<1>7. \A n \in 1 .. Len(exports) : after[n] = Committed(after[n - 1], t, exports[n], due)
    BY <1>1, <1>5
<1>8. Leads(after, t, exports, due) BY <1>4, <1>6, <1>7 DEF Leads
<1> QED BY <1>8

LEMMA KeepsCompose ==
    ASSUME NEW old, NEW mid, NEW new, Rows(mid), NEW t, NEW s,
           Keeps(old, mid, t, s), Keeps(mid, new, t, s)
    PROVE  Keeps(old, new, t, s)
<1>1. \A h \in Handles : mid[h] \in Slots BY DEF Rows
<1>2. ASSUME NEW r \in Handles, IsIssued(mid, r)
      PROVE  /\ IsIssued(new, r)
             /\ new[r].session = mid[r].session /\ new[r].key = mid[r].key
             /\ new[r].origin = mid[r].origin
    <2>1. new[r] = mid[r] \/ Replaced(mid, new, r, s) BY <1>2 DEF Keeps
    <2>2. CASE new[r] = mid[r] BY <2>2, <1>2 DEF IsIssued
    <2>3. CASE Replaced(mid, new, r, s)
        <3>1. PICK q \in Handles :
                new[r] = [Close(mid[r], "replaced", version[s]) EXCEPT !.replacedBy = q]
            BY <2>3 DEF Replaced
        <3> QED BY <3>1, <1>1 DEF Close, Slots, IsIssued
    <2> QED BY <2>1, <2>2, <2>3
<1> SUFFICES ASSUME NEW h \in Handles
             PROVE  IF IsIssued(old, h) THEN new[h] = old[h] \/ Replaced(old, new, h, s)
                    ELSE IsIssued(new, h) => new[h].origin = t /\ new[h].session = s
    BY DEF Keeps
<1>3. CASE IsIssued(old, h) /\ mid[h] = old[h]
    <2>1. IsIssued(mid, h) BY <1>3 DEF IsIssued
    <2>2. new[h] = mid[h] \/ Replaced(mid, new, h, s) BY <2>1 DEF Keeps
    <2>3. Replaced(mid, new, h, s) => Replaced(old, new, h, s) BY <1>3 DEF Replaced
    <2> QED BY <1>3, <2>2, <2>3
<1>4. CASE IsIssued(old, h) /\ Replaced(old, mid, h, s)
    <2>1. PICK r \in Handles :
            /\ mid[h] = [Close(old[h], "replaced", version[s]) EXCEPT !.replacedBy = r]
            /\ IsIssued(mid, r) /\ mid[r].session = s /\ mid[r].key = old[h].key
        BY <1>4 DEF Replaced
    <2>2. old[h].status = "active" /\ old[h].session = s BY <1>4 DEF Replaced
    <2>3. mid[h].status = "replaced"
        <3>1. mid[h] \in Slots BY <1>1
        <3>2. "status" \in DOMAIN old[h]
            <4>1. DOMAIN mid[h] = DOMAIN old[h] BY <2>1 DEF Close
            <4> QED BY <3>1, <4>1 DEF Slots
        <3> QED BY <2>1, <3>2 DEF Close
    <2>4. IsIssued(mid, h) /\ ~Replaced(mid, new, h, s) BY <2>3 DEF IsIssued, Replaced
    <2>5. new[h] = mid[h] BY <2>4 DEF Keeps
    <2>6. IsIssued(new, r) /\ new[r].session = s /\ new[r].key = old[h].key BY <2>1, <1>2
    <2>7. new[h] = [Close(old[h], "replaced", version[s]) EXCEPT !.replacedBy = r]
        BY <2>1, <2>5
    <2>8. Replaced(old, new, h, s) BY <2>2, <2>6, <2>7 DEF Replaced
    <2> QED BY <1>4, <2>8
<1>5. CASE ~IsIssued(old, h) /\ IsIssued(mid, h)
    <2>1. mid[h].origin = t /\ mid[h].session = s BY <1>5 DEF Keeps
    <2> QED BY <2>1, <1>2, <1>5
<1>6. CASE ~IsIssued(old, h) /\ ~IsIssued(mid, h) BY <1>6 DEF Keeps
<1>7. IsIssued(old, h) => mid[h] = old[h] \/ Replaced(old, mid, h, s) BY DEF Keeps
<1> QED BY <1>3, <1>4, <1>5, <1>6, <1>7

(* What the store has after the exports of an ending turn. *)
LEMMA CommitsKeep ==
    ASSUME ContextAssumption, Rows(slot), Chain(slot),
           NEW k \in 0 .. MaxHandles, IssuedUpTo(slot, k),
           NEW t \in Turns, turn[t].session \in Sessions, version[turn[t].session] \in Nat,
           time \in 0 .. MaxTime, NEW due \in 0 .. Never,
           NEW exports \in Seq(Contract), k + Len(exports) <= MaxHandles
    PROVE  LET new == Commits(t, exports, due)
           IN  /\ Rows(new) /\ Chain(new) /\ IssuedUpTo(new, k + Len(exports))
               /\ Keeps(slot, new, t, turn[t].session)
<1>10. PICK f : Leads(f, t, exports, due) BY CommitsStaged
<1>1. /\ f[0] = slot
      /\ \A n \in 1 .. Len(exports) : f[n] = Committed(f[n - 1], t, exports[n], due)
      /\ Commits(t, exports, due) = f[Len(exports)]
    BY <1>10 DEF Leads
<1> DEFINE Good(n) == /\ Rows(f[n]) /\ Chain(f[n]) /\ IssuedUpTo(f[n], k + n)
                      /\ Keeps(slot, f[n], t, turn[t].session)
           bad == {n \in 0 .. Len(exports) : ~Good(n)}
<1>2. Len(exports) \in Nat /\ k \in Nat /\ MaxHandles \in Nat BY DEF ContextAssumption
<1>3. Good(0)
    <2>1. Keeps(slot, slot, t, turn[t].session) BY DEF Keeps
    <2>2. k + 0 = k BY <1>2
    <2> QED BY <1>1, <2>1, <2>2
<1>4. ASSUME NEW n \in 1 .. Len(exports), Good(n - 1) PROVE Good(n)
    <2>1. /\ n - 1 \in Nat /\ k + (n - 1) \in Nat /\ k + (n - 1) < MaxHandles
          /\ k + (n - 1) + 1 = k + n
        BY <1>2
    <2>2. exports[n] \in Contract BY <1>2
    <2>3. f[n] = Committed(f[n - 1], t, exports[n], due) BY <1>1
    <2>4. PICK mid : mid = f[n - 1] OBVIOUS
    <2>5. Rows(mid) /\ Chain(mid) /\ IssuedUpTo(mid, k + (n - 1))
        BY <1>4, <2>4
    <2>6. Keeps(slot, mid, t, turn[t].session) BY <1>4, <2>4
    <2> HIDE DEF Good
    <2>7. /\ Rows(f[n]) /\ Chain(f[n]) /\ IssuedUpTo(f[n], k + (n - 1) + 1)
          /\ Keeps(mid, f[n], t, turn[t].session)
        BY <2>1, <2>2, <2>3, <2>4, <2>5, OneCommit
    <2>8. Keeps(slot, f[n], t, turn[t].session) BY <2>5, <2>6, <2>7, KeepsCompose
    <2> QED BY <2>1, <2>7, <2>8 DEF Good
<1>5. \A n \in bad : n \in 0 .. Len(exports) /\ ~Good(n) OBVIOUS
<1>6. \A n \in 0 .. Len(exports) : n \notin bad => Good(n) OBVIOUS
<1>7. bad \subseteq Nat OBVIOUS
<1> HIDE DEF bad, Good
<1>8. bad = {}
    <2> SUFFICES ASSUME bad # {} PROVE FALSE OBVIOUS
    <2>1. PICK m : m = Min(bad) OBVIOUS
    <2>2. m \in bad /\ \A y \in bad : m <= y BY <2>1, <1>7, MinIsLeast
    <2>3. m \in 1 .. Len(exports) BY <2>2, <1>2, <1>3, <1>5
    <2>4. m - 1 \in 0 .. Len(exports) /\ m - 1 \notin bad BY <2>2, <2>3, <1>2
    <2>5. Good(m - 1) BY <2>4, <1>6
    <2> QED BY <2>2, <2>3, <2>5, <1>4, <1>5
<1>9. Good(Len(exports)) BY <1>2, <1>6, <1>8
<1> QED BY <1>1, <1>9 DEF Good

(***************************************************************************)
(* Slots that close                                                        *)
(***************************************************************************)
LEMMA CloseFields ==
    ASSUME NEW row \in Slots, NEW st \in Statuses, NEW at \in Nat
    PROVE  /\ Close(row, st, at) \in Slots
           /\ Close(row, st, at).status = st /\ Close(row, st, at).closed = at
           /\ Close(row, st, at).session = row.session /\ Close(row, st, at).key = row.key
           /\ Close(row, st, at).origin = row.origin
           /\ Close(row, st, at).generation = row.generation
           /\ Close(row, st, at).replacedBy = row.replacedBy
BY DEF Close, Slots

(* Slot h stops being active, at the version of its session. *)
Closed(new, h, st) ==
    slot[h].status = "active" /\ new[h] = Close(slot[h], st, version[slot[h].session])

Closes(new) ==
    /\ new \in [Handles -> Slots]
    /\ \A h \in Handles :
          new[h] = slot[h] \/ \E st \in {"expired", "invalidated"} : Closed(new, h, st)

LEMMA ClosingKeeps ==
    ASSUME Rows(slot), Chain(slot), version \in [Sessions -> Nat], NEW new, Closes(new)
    PROVE  /\ Rows(new) /\ Chain(new)
           /\ \A k : IssuedUpTo(slot, k) => IssuedUpTo(new, k)
<1>1. ASSUME NEW h \in Handles
      PROVE  /\ IsIssued(new, h) <=> IsIssued(slot, h)
             /\ new[h].session = slot[h].session /\ new[h].key = slot[h].key
             /\ new[h].origin = slot[h].origin /\ new[h].generation = slot[h].generation
             /\ new[h].replacedBy = slot[h].replacedBy
             /\ new[h].status = "active" => slot[h].status = "active"
    <2>1. CASE new[h] = slot[h] BY <2>1 DEF IsIssued
    <2>2. ASSUME NEW st \in {"expired", "invalidated"}, Closed(new, h, st)
          PROVE  /\ IsIssued(new, h) <=> IsIssued(slot, h)
                 /\ new[h].session = slot[h].session /\ new[h].key = slot[h].key
                 /\ new[h].origin = slot[h].origin
                 /\ new[h].generation = slot[h].generation
                 /\ new[h].replacedBy = slot[h].replacedBy
                 /\ new[h].status = "active" => slot[h].status = "active"
        <3>1. slot[h] \in Slots /\ st \in Statuses BY DEF Rows, Statuses
        <3>2. slot[h].status = "active" /\ slot[h].session \in Sessions
            BY <2>2 DEF Closed, Rows
        <3>3. version[slot[h].session] \in Nat BY <3>2
        <3>4. new[h] = Close(slot[h], st, version[slot[h].session]) BY <2>2 DEF Closed
        <3>5. new[h].status = st BY <3>1, <3>3, <3>4, CloseFields
        <3> QED BY <3>1, <3>2, <3>3, <3>4, <3>5, CloseFields DEF IsIssued
    <2> QED BY <2>1, <2>2 DEF Closes
<1>2. Rows(new)
    <2> SUFFICES ASSUME NEW h \in Handles
                 PROVE  IF new[h].status = "none" THEN new[h].session = None
                        ELSE /\ new[h].session \in Sessions /\ new[h].key \in Keys
                             /\ new[h].origin \in Turns
                             /\ new[h].generation >= 1 /\ new[h].generation <= h
                             /\ new[h].replacedBy # 0 => IsIssued(new, new[h].replacedBy)
        BY DEF Rows, Closes
    <2>1. slot[h].replacedBy \in Handles \cup {0} BY DEF Rows, Slots
    <2> QED BY <1>1, <2>1 DEF Rows, IsIssued
<1>3. Chain(new) BY <1>1 DEF Chain
<1>4. ASSUME NEW k, IssuedUpTo(slot, k) PROVE IssuedUpTo(new, k)
    BY <1>1, <1>4 DEF IssuedUpTo
<1> QED BY <1>2, <1>3, <1>4

(* A read of the context closes what is due and what has lost its evidence; *)
(* no catalog import does.                                                 *)
RefreshedSo(new, h, s) ==
    /\ slot[h].session = s
    /\ \/ Closed(new, h, "expired") /\ slot[h].expires <= time
       \/ Closed(new, h, "invalidated") /\ ~turn[slot[h].origin].evidence

LEMMA RefreshCloses ==
    ASSUME IInv, NEW s \in Sessions
    PROVE  /\ Closes(Refreshed(s))
           /\ \A h \in Handles :
                 Refreshed(s)[h] = slot[h] \/ RefreshedSo(Refreshed(s), h, s)
<1> DEFINE new == Refreshed(s)
<1>1. Rows(slot) /\ version \in [Sessions -> Nat] BY DEF IInv, StoreInv, CounterInv
<1>2. new = [h \in Handles |-> new[h]] BY DEF Refreshed
<1>3. ASSUME NEW h \in Handles
      PROVE  new[h] = slot[h] \/ RefreshedSo(new, h, s)
    <2>1. CASE slot[h].session # s \/ slot[h].status # "active" BY <2>1 DEF Refreshed
    <2>2. CASE slot[h].session = s /\ slot[h].status = "active" /\ slot[h].expires <= time
        <3>1. new[h] = Close(slot[h], "expired", version[s]) BY <2>2 DEF Refreshed
        <3> QED BY <2>2, <3>1 DEF RefreshedSo, Closed
    <2>3. CASE /\ slot[h].session = s /\ slot[h].status = "active"
               /\ ~(slot[h].expires <= time) /\ ~Restorable(slot[h].origin)
        <3>1. new[h] = Close(slot[h], "invalidated", version[s]) BY <2>3 DEF Refreshed
        <3>2. ProducerKnown(slot[h].origin) BY <2>3 DEF IInv, OriginsEnded, IsIssued
        <3>3. ~turn[slot[h].origin].evidence BY <2>3, <3>2 DEF Restorable
        <3> QED BY <2>3, <3>1, <3>3 DEF RefreshedSo, Closed
    <2>4. CASE /\ slot[h].session = s /\ slot[h].status = "active"
               /\ ~(slot[h].expires <= time) /\ Restorable(slot[h].origin)
        BY <2>4 DEF Refreshed
    <2> QED BY <2>1, <2>2, <2>3, <2>4
<1> HIDE DEF new
<1>4. ASSUME NEW h \in Handles PROVE new[h] \in Slots
    <2>1. slot[h] \in Slots BY <1>1 DEF Rows
    <2>2. CASE new[h] = slot[h] BY <2>1, <2>2
    <2>3. CASE RefreshedSo(new, h, s)
        <3>1. PICK st \in {"expired", "invalidated"} : Closed(new, h, st)
            BY <2>3 DEF RefreshedSo
        <3>2. st \in Statuses /\ version[slot[h].session] \in Nat
            BY <2>3, <1>1 DEF RefreshedSo, Statuses
        <3> QED BY <2>1, <3>1, <3>2, CloseFields DEF Closed
    <2> QED BY <2>2, <2>3, <1>3
<1>5. new \in [Handles -> Slots] BY <1>2, <1>4
<1>6. \A h \in Handles :
          new[h] = slot[h] \/ \E st \in {"expired", "invalidated"} : Closed(new, h, st)
    BY <1>3 DEF RefreshedSo
<1>7. Closes(new) BY <1>5, <1>6 DEF Closes
<1> QED BY <1>3, <1>7 DEF new

(***************************************************************************)
(* What a step does to the slots, and what that leaves of the readings     *)
(***************************************************************************)
(* A slot stays, or stops being active at the version of its session:       *)
(* because it was due, because its origin has lost its evidence, or with    *)
(* that version moving on.                                                 *)
SlotStep ==
    \A h \in Handles : IsIssued(slot, h) =>
        /\ slot'[h].session = slot[h].session /\ slot'[h].origin = slot[h].origin
        /\ \/ slot'[h] = slot[h]
           \/ /\ slot[h].status = "active"
              /\ slot'[h].closed = version[slot[h].session]
              /\ \/ slot'[h].status = "expired"
                 \/ ~turn[slot[h].origin].evidence
                 \/ version[slot[h].session] < version'[slot[h].session]

DoneStays == \A t \in Turns : turn[t].at = "done" => turn'[t] = turn[t]

LEMMA SlotsTyped ==
    ASSUME IInv, ContextAssumption, NEW h \in Handles, NEW s \in Sessions, slot[h].session = s
    PROVE  /\ IsIssued(slot, h) /\ slot[h].closed \in Nat /\ slot[h].origin \in Turns
           /\ turn[slot[h].origin].at = "done"
<1>1. Rows(slot) /\ OriginsEnded BY DEF IInv, StoreInv
<1>2. slot[h].session # None BY DEF ContextAssumption
<1>3. IsIssued(slot, h) BY <1>1, <1>2 DEF Rows, IsIssued
<1>4. slot[h] \in Slots BY <1>1 DEF Rows
<1>5. slot[h].closed \in Nat BY <1>4 DEF Slots
<1> QED BY <1>1, <1>3, <1>5 DEF Rows, OriginsEnded, IsIssued

(* A reading of slot h at version v of session s stays what it was worth. *)
LEMMA ReadingCarries ==
    ASSUME IInv, ContextAssumption, SlotStep, DoneStays,
           NEW h \in Handles, NEW s \in Sessions, slot[h].session = s,
           NEW v \in Nat, v <= version[s], version'[s] \in Nat, version[s] <= version'[s]
    PROVE  /\ slot'[h].session = s
           /\ slot[h].status = "active" \/ slot[h].closed >= v =>
                 slot'[h].status = "active" \/ slot'[h].closed >= v
           /\ (v = version[s] => Stands(slot, turn, h)) =>
                 (v = version'[s] => Stands(slot', turn', h))
<1>1. /\ IsIssued(slot, h) /\ slot[h].closed \in Nat /\ slot[h].origin \in Turns
      /\ turn[slot[h].origin].at = "done"
    BY SlotsTyped
<1>2. turn'[slot[h].origin] = turn[slot[h].origin] BY <1>1 DEF DoneStays
<1>3. slot'[h].session = s /\ slot'[h].origin = slot[h].origin BY <1>1 DEF SlotStep
<1>4. version[s] \in Nat BY DEF IInv, CounterInv
<1>5. CASE slot'[h] = slot[h]
    <2>1. Stands(slot', turn', h) <=> Stands(slot, turn, h) BY <1>2, <1>5 DEF Stands
    <2>2. v = version'[s] => v = version[s] BY <1>4
    <2> QED BY <1>3, <1>5, <2>1, <2>2
<1>6. CASE slot'[h] # slot[h]
    <2>1. /\ slot'[h].closed = version[s]
          /\ \/ slot'[h].status = "expired"
             \/ ~turn[slot[h].origin].evidence
             \/ version[s] < version'[s]
        BY <1>1, <1>6 DEF SlotStep
    <2>2. slot'[h].closed >= v BY <2>1, <1>4
    <2>3. v = version'[s] => Stands(slot', turn', h)
        BY <2>1, <1>2, <1>3, <1>4 DEF Stands
    <2> QED BY <1>3, <2>2, <2>3
<1> QED BY <1>5, <1>6

(* A turn that stays as it is, is still right about what it has read. *)
LEMMA TurnCarries ==
    ASSUME IInv, ContextAssumption, SlotStep, DoneStays,
           version' \in [Sessions -> Nat], \A s \in Sessions : version[s] <= version'[s],
           revision' \in Nat, revision <= revision',
           NEW t \in Turns, turn'[t] = turn[t]
    PROVE  /\ IF turn'[t].at = "idle" THEN turn'[t] = NotAccepted
              ELSE /\ turn'[t].session \in Sessions /\ turn'[t].revision \in 1 .. revision'
                   /\ turn'[t].version <= version'[turn'[t].session]
                   /\ \A h \in turn'[t].facts : slot'[h].session = turn'[t].session
           /\ turn'[t].at \in {"planning", "executing"} =>
                 \A h \in turn'[t].facts :
                    /\ slot'[h].status = "active" \/ slot'[h].closed >= turn'[t].version
                    /\ turn'[t].version = version'[turn'[t].session] => Stands(slot', turn', h)
<1>1. TurnInv /\ FactsHold /\ CounterInv BY DEF IInv
<1>2. turn[t] \in TurnStates BY <1>1 DEF TurnInv
<1>3. turn[t].facts \subseteq Handles /\ turn[t].version \in Nat /\ turn[t].revision \in Nat
    BY <1>2 DEF TurnStates
<1>4. CASE turn[t].at = "idle" BY <1>1, <1>4 DEF TurnInv
<1>5. CASE turn[t].at # "idle"
    <2>1. PICK s \in Sessions : turn[t].session = s BY <1>1, <1>5 DEF TurnInv
    <2>2. /\ turn[t].revision \in 1 .. revision /\ turn[t].version <= version[s]
          /\ \A h \in turn[t].facts : slot[h].session = s
        BY <1>1, <1>5, <2>1 DEF TurnInv
    <2>3. version[s] \in Nat /\ version'[s] \in Nat /\ version[s] <= version'[s] BY <1>1 DEF CounterInv
    <2>4. turn[t].version <= version'[s] BY <1>3, <2>2, <2>3
    <2>5. turn[t].revision \in 1 .. revision' BY <1>1, <2>2 DEF CounterInv
    <2>6. ASSUME NEW h \in turn[t].facts
          PROVE  /\ slot'[h].session = s
                 /\ Works(t) =>
                        /\ slot'[h].status = "active" \/ slot'[h].closed >= turn[t].version
                        /\ turn[t].version = version'[s] => Stands(slot', turn', h)
        <3>1. h \in Handles /\ slot[h].session = s BY <1>3, <2>2
        <3>2. Works(t) =>
                  /\ slot[h].status = "active" \/ slot[h].closed >= turn[t].version
                  /\ turn[t].version = version[s] => Stands(slot, turn, h)
            BY <1>1, <2>1 DEF FactsHold
        <3> QED BY <3>1, <3>2, <1>3, <2>2, <2>3, ReadingCarries
    <2> QED BY <1>5, <2>1, <2>4, <2>5, <2>6 DEF Works
<1> QED BY <1>4, <1>5

LEMMA QuestionCarries ==
    ASSUME IInv, ContextAssumption, SlotStep, DoneStays,
           NEW s \in Sessions, version'[s] \in Nat, version[s] <= version'[s],
           question'[s] = question[s]
    PROVE  /\ question'[s].version <= version'[s]
           /\ \A h \in Offered(question'[s]) :
                /\ h \in Handles /\ slot'[h].session = s
                /\ question'[s].version = version'[s] => Stands(slot', turn', h)
<1>1. QuestionInv /\ CounterInv BY DEF IInv
<1>2. question[s].version \in Nat BY <1>1 DEF QuestionInv, Questions
<1>3. question[s].version <= version[s] /\ version[s] \in Nat BY <1>1 DEF QuestionInv, CounterInv
<1>4. ASSUME NEW h \in Offered(question[s])
      PROVE  /\ h \in Handles /\ slot'[h].session = s
             /\ question[s].version = version'[s] => Stands(slot', turn', h)
    <2>1. h \in Handles /\ slot[h].session = s BY <1>1 DEF QuestionInv
    <2>2. question[s].version = version[s] => Stands(slot, turn, h) BY <1>1 DEF QuestionInv
    <2> QED BY <2>1, <2>2, <1>2, <1>3, ReadingCarries
<1>5. question[s].version <= version'[s] BY <1>2, <1>3
<1> QED BY <1>4, <1>5

(***************************************************************************)
(* The invariant over the steps of a turn and over the others              *)
(***************************************************************************)
(* Turn t of session s becomes r, the question of the session q and its     *)
(* version v; what the turn and the question then hold is right.           *)
MovesTo(t, s, r, q, v) ==
    /\ turn' = [turn EXCEPT ![t] = r]
    /\ question' = [question EXCEPT ![s] = q]
    /\ version' = [version EXCEPT ![s] = v]
    /\ time' = time /\ revision' = revision /\ faults' \in 0 .. MaxFaults

HoldsWell(t, s, r, q, v) ==
    /\ r \in TurnStates /\ q \in Questions /\ v \in Nat
    /\ turn[t].at # "done" /\ version[s] <= v
    /\ r.at # "idle" /\ r.session = s /\ r.revision \in 1 .. revision /\ r.version <= v
    /\ \A u \in Turns : u # t /\ turn[u].session = s => ~Works(u)
    /\ \A h \in Handles : ~IsIssued(slot, h) /\ IsIssued(slot', h) =>
          slot'[h].origin = t /\ r.at = "done"
    /\ \A h \in r.facts : slot'[h].session = s
    /\ r.at # "done" =>
          /\ q.kind = "none"
          /\ \A h \in r.facts :
                /\ slot'[h].status = "active" \/ slot'[h].closed >= r.version
                /\ r.version = v => Stands(slot', turn', h)
    /\ q.version <= v
    /\ \A h \in Offered(q) :
          /\ h \in Handles /\ slot'[h].session = s
          /\ q.version = v => Stands(slot', turn', h)

LEMMA TurnMoves ==
    ASSUME IInv, ContextAssumption, StoreInv', SlotStep,
           NEW t \in Turns, NEW s \in Sessions, NEW r, NEW q, NEW v,
           MovesTo(t, s, r, q, v), HoldsWell(t, s, r, q, v)
    PROVE  IInv'
<1>20. /\ turn' = [turn EXCEPT ![t] = r] /\ question' = [question EXCEPT ![s] = q]
       /\ version' = [version EXCEPT ![s] = v] /\ time' = time /\ revision' = revision
       /\ faults' \in 0 .. MaxFaults
    BY DEF MovesTo
<1>21. /\ r \in TurnStates /\ q \in Questions /\ v \in Nat
       /\ turn[t].at # "done" /\ version[s] <= v
       /\ r.at # "idle" /\ r.session = s /\ r.revision \in 1 .. revision /\ r.version <= v
    BY DEF HoldsWell
<1>22. /\ \A u \in Turns : u # t /\ turn[u].session = s => ~Works(u)
       /\ \A h \in Handles : ~IsIssued(slot, h) /\ IsIssued(slot', h) =>
             slot'[h].origin = t /\ r.at = "done"
       /\ \A h \in r.facts : slot'[h].session = s
       /\ r.at # "done" =>
             /\ q.kind = "none"
             /\ \A h \in r.facts :
                   /\ slot'[h].status = "active" \/ slot'[h].closed >= r.version
                   /\ r.version = v => Stands(slot', turn', h)
       /\ q.version <= v
       /\ \A h \in Offered(q) :
             /\ h \in Handles /\ slot'[h].session = s
             /\ q.version = v => Stands(slot', turn', h)
    BY DEF HoldsWell
<1> USE <1>20, <1>21, <1>22
<1>1. /\ StoreInv /\ OriginsEnded /\ OneWorks /\ AskedByNobody /\ FactsHold
      /\ TurnInv /\ QuestionInv /\ CounterInv
    BY DEF IInv
<1>2. turn \in [Turns -> TurnStates] /\ question \in [Sessions -> Questions]
      /\ version \in [Sessions -> Nat] /\ revision \in 1 .. MaxRevision
    BY <1>1 DEF TurnInv, QuestionInv, CounterInv
<1>3. /\ turn' \in [Turns -> TurnStates] /\ turn'[t] = r
      /\ \A u \in Turns : u # t => turn'[u] = turn[u]
    BY <1>2
<1>4. /\ question' \in [Sessions -> Questions] /\ question'[s] = q
      /\ \A z \in Sessions : z # s => question'[z] = question[z]
    BY <1>2
<1>5. /\ version' \in [Sessions -> Nat] /\ version'[s] = v
      /\ \A z \in Sessions : version[z] <= version'[z]
    BY <1>2
<1>6. DoneStays BY <1>3 DEF DoneStays
<1>7. revision' \in Nat /\ revision <= revision' BY <1>2
<1>8. ASSUME NEW u \in Turns, u # t
      PROVE  /\ IF turn'[u].at = "idle" THEN turn'[u] = NotAccepted
                ELSE /\ turn'[u].session \in Sessions /\ turn'[u].revision \in 1 .. revision'
                     /\ turn'[u].version <= version'[turn'[u].session]
                     /\ \A h \in turn'[u].facts : slot'[h].session = turn'[u].session
             /\ turn'[u].at \in {"planning", "executing"} =>
                   \A h \in turn'[u].facts :
                      /\ slot'[h].status = "active" \/ slot'[h].closed >= turn'[u].version
                      /\ turn'[u].version = version'[turn'[u].session] =>
                            Stands(slot', turn', h)
    <2>1. turn'[u] = turn[u] BY <1>3, <1>8
    <2> QED BY <2>1, <1>5, <1>6, <1>7, TurnCarries
<1>9. TurnInv'
    <2>1. ASSUME NEW u \in Turns
          PROVE  IF turn'[u].at = "idle" THEN turn'[u] = NotAccepted
                 ELSE /\ turn'[u].session \in Sessions /\ turn'[u].revision \in 1 .. revision'
                      /\ turn'[u].version <= version'[turn'[u].session]
                      /\ \A h \in turn'[u].facts : slot'[h].session = turn'[u].session
        <3>1. CASE u = t BY <3>1, <1>3, <1>5
        <3>2. CASE u # t BY <3>2, <1>8
        <3> QED BY <3>1, <3>2
    <2> QED BY <2>1, <1>3 DEF TurnInv
<1>10. r.at \in {"idle", "planning", "executing", "done"} BY DEF TurnStates
<1>11. FactsHold'
    <2>1. ASSUME NEW u \in Turns, turn'[u].at \in {"planning", "executing"}
          PROVE  \A h \in turn'[u].facts :
                    /\ slot'[h].status = "active" \/ slot'[h].closed >= turn'[u].version
                    /\ turn'[u].version = version'[turn'[u].session] => Stands(slot', turn', h)
        <3>1. CASE u = t BY <3>1, <2>1, <1>3, <1>5
        <3>2. CASE u # t BY <3>2, <2>1, <1>8
        <3> QED BY <3>1, <3>2
    <2> QED BY <2>1 DEF FactsHold, Works
<1>12. QuestionInv'
    <2>1. ASSUME NEW z \in Sessions
          PROVE  /\ question'[z].version <= version'[z]
                 /\ \A h \in Offered(question'[z]) :
                      /\ h \in Handles /\ slot'[h].session = z
                      /\ question'[z].version = version'[z] => Stands(slot', turn', h)
        <3>1. CASE z = s BY <3>1, <1>4, <1>5
        <3>2. CASE z # s
            <4>1. question'[z] = question[z] /\ version'[z] \in Nat /\ version[z] <= version'[z]
                BY <3>2, <1>4, <1>5
            <4> QED BY <4>1, <1>6, QuestionCarries
        <3> QED BY <3>1, <3>2
    <2> QED BY <2>1, <1>4 DEF QuestionInv
<1>13. OneWorks'
    <2>1. ASSUME NEW u \in Turns, u # t, turn'[u].at \in {"planning", "executing"},
                 turn'[u].session = s
          PROVE  FALSE
        BY <2>1, <1>3 DEF Works
    <2>2. ASSUME NEW u \in Turns, NEW w \in Turns,
                 turn'[u].at \in {"planning", "executing"},
                 turn'[w].at \in {"planning", "executing"},
                 turn'[u].session = turn'[w].session
          PROVE  u = w
        <3>1. CASE u = t \/ w = t BY <3>1, <2>1, <2>2, <1>3
        <3>2. CASE u # t /\ w # t BY <3>2, <2>2, <1>1, <1>3 DEF OneWorks, Works
        <3> QED BY <3>1, <3>2
    <2> QED BY <2>2 DEF OneWorks, Works
<1>14. AskedByNobody'
    <2>1. ASSUME NEW u \in Turns, turn'[u].at \in {"planning", "executing"}
          PROVE  question'[turn'[u].session].kind = "none"
        <3>1. CASE u = t BY <3>1, <2>1, <1>3, <1>4
        <3>2. CASE u # t
            <4>1. turn'[u] = turn[u] /\ Works(u) BY <3>2, <2>1, <1>3 DEF Works
            <4>2. turn[u].session # s BY <3>2, <4>1
            <4>3. turn[u].session \in Sessions BY <4>1, <1>1 DEF TurnInv, Works
            <4> QED BY <4>1, <4>2, <4>3, <1>1, <1>4 DEF AskedByNobody
        <3> QED BY <3>1, <3>2
    <2> QED BY <2>1 DEF AskedByNobody, Works
<1>15. OriginsEnded'
    <2>1. ASSUME NEW h \in Handles, IsIssued(slot', h)
          PROVE  /\ turn'[slot'[h].origin].at = "done"
                 /\ turn'[slot'[h].origin].revision \in 1 .. revision'
        <3>1. CASE IsIssued(slot, h)
            <4>1. slot'[h].origin = slot[h].origin BY <3>1 DEF SlotStep
            <4>2. slot[h].origin \in Turns BY <3>1, <1>1 DEF StoreInv, Rows, IsIssued
            <4>3. turn[slot[h].origin].at = "done"
                  /\ turn[slot[h].origin].revision \in 1 .. revision
                BY <3>1, <1>1 DEF OriginsEnded, ProducerKnown
            <4>4. turn'[slot[h].origin] = turn[slot[h].origin] BY <4>2, <4>3, <1>6 DEF DoneStays
            <4> QED BY <4>1, <4>3, <4>4
        <3>2. CASE ~IsIssued(slot, h) BY <3>2, <2>1, <1>3
        <3> QED BY <3>1, <3>2
    <2> QED BY <2>1 DEF OriginsEnded, ProducerKnown, IsIssued
<1>16. CounterInv' BY <1>1, <1>5 DEF CounterInv
<1> QED BY <1>9, <1>11, <1>12, <1>13, <1>14, <1>15, <1>16 DEF IInv

(* A step that touches no turn and asks nothing. *)
LEMMA OthersMove ==
    ASSUME IInv, ContextAssumption, StoreInv', SlotStep,
           \A h \in Handles : IsIssued(slot', h) => IsIssued(slot, h),
           turn' = turn, question' = question, CounterInv', revision <= revision',
           \A s \in Sessions : version[s] <= version'[s]
    PROVE  IInv'
<1>1. /\ StoreInv /\ OriginsEnded /\ OneWorks /\ AskedByNobody /\ TurnInv /\ QuestionInv
      /\ CounterInv
    BY DEF IInv
<1>2. DoneStays BY DEF DoneStays
<1>3. version' \in [Sessions -> Nat] /\ revision' \in Nat /\ revision \in Nat
    BY <1>1 DEF CounterInv
<1>4. ASSUME NEW t \in Turns
      PROVE  /\ IF turn'[t].at = "idle" THEN turn'[t] = NotAccepted
                ELSE /\ turn'[t].session \in Sessions /\ turn'[t].revision \in 1 .. revision'
                     /\ turn'[t].version <= version'[turn'[t].session]
                     /\ \A h \in turn'[t].facts : slot'[h].session = turn'[t].session
             /\ turn'[t].at \in {"planning", "executing"} =>
                   \A h \in turn'[t].facts :
                      /\ slot'[h].status = "active" \/ slot'[h].closed >= turn'[t].version
                      /\ turn'[t].version = version'[turn'[t].session] =>
                            Stands(slot', turn', h)
    BY <1>2, <1>3, TurnCarries
<1>5. TurnInv' BY <1>1, <1>4 DEF TurnInv
<1>6. FactsHold' BY <1>4 DEF FactsHold, Works
<1>7. ASSUME NEW z \in Sessions
      PROVE  /\ question'[z].version <= version'[z]
             /\ \A h \in Offered(question'[z]) :
                   /\ h \in Handles /\ slot'[h].session = z
                   /\ question'[z].version = version'[z] => Stands(slot', turn', h)
    <2>1. question'[z] = question[z] /\ version'[z] \in Nat /\ version[z] <= version'[z]
        BY <1>3
    <2> QED BY <2>1, <1>2, QuestionCarries
<1>8. QuestionInv' BY <1>1, <1>7 DEF QuestionInv
<1>9. OneWorks' BY <1>1 DEF OneWorks, Works
<1>10. AskedByNobody' BY <1>1 DEF AskedByNobody, Works
<1>11. OriginsEnded'
    <2>1. ASSUME NEW h \in Handles, IsIssued(slot', h)
          PROVE  /\ turn'[slot'[h].origin].at = "done"
                 /\ turn'[slot'[h].origin].revision \in 1 .. revision'
        <3>1. IsIssued(slot, h) BY <2>1
        <3>2. slot'[h].origin = slot[h].origin BY <3>1 DEF SlotStep
        <3>3. slot[h].origin \in Turns BY <3>1, <1>1 DEF StoreInv, Rows, IsIssued
        <3>4. turn[slot[h].origin].at = "done"
              /\ turn[slot[h].origin].revision \in 1 .. revision
            BY <3>1, <1>1 DEF OriginsEnded, ProducerKnown
        <3>5. turn[slot[h].origin].revision \in 1 .. revision' BY <3>4, <1>3
        <3> QED BY <3>2, <3>4, <3>5
    <2> QED BY <2>1 DEF OriginsEnded, ProducerKnown, IsIssued
<1> QED BY <1>5, <1>6, <1>8, <1>9, <1>10, <1>11 DEF IInv

(***************************************************************************)
(* The slots of the steps that issue none                                  *)
(***************************************************************************)
NoneIssued == \A h \in Handles : IsIssued(slot', h) => IsIssued(slot, h)

LEMMA SlotsStay ==
    ASSUME IInv, slot' = slot
    PROVE  StoreInv' /\ SlotStep /\ NoneIssued
<1>1. StoreInv BY DEF IInv
<1>2. StoreInv' BY <1>1 DEF StoreInv
<1> QED BY <1>2 DEF SlotStep, NoneIssued

LEMMA SlotsRefreshed ==
    ASSUME IInv, NEW s \in Sessions, slot' = Refreshed(s)
    PROVE  StoreInv' /\ SlotStep /\ NoneIssued
<1>1. /\ Rows(slot) /\ Chain(slot) /\ version \in [Sessions -> Nat]
      /\ \E k \in 0 .. MaxHandles : IssuedUpTo(slot, k)
    BY DEF IInv, StoreInv, CounterInv
<1>2. PICK k \in 0 .. MaxHandles : IssuedUpTo(slot, k) BY <1>1
<1>3. PICK new : new = Refreshed(s) OBVIOUS
<1>4. Closes(new) /\ \A h \in Handles : new[h] = slot[h] \/ RefreshedSo(new, h, s)
    BY <1>3, RefreshCloses
<1>5. Rows(new) /\ Chain(new) /\ IssuedUpTo(new, k) BY <1>1, <1>2, <1>4, ClosingKeeps
<1>6. StoreInv' BY <1>3, <1>5 DEF StoreInv
<1>7. ASSUME NEW h \in Handles, IsIssued(slot, h)
      PROVE  /\ new[h].session = slot[h].session /\ new[h].origin = slot[h].origin
             /\ \/ new[h] = slot[h]
                \/ /\ slot[h].status = "active"
                   /\ new[h].closed = version[slot[h].session]
                   /\ new[h].status = "expired" \/ ~turn[slot[h].origin].evidence
    <2>1. CASE new[h] = slot[h] BY <2>1
    <2>2. CASE RefreshedSo(new, h, s)
        <3>1. PICK st \in {"expired", "invalidated"} :
                /\ Closed(new, h, st)
                /\ st = "expired" \/ ~turn[slot[h].origin].evidence
            BY <2>2 DEF RefreshedSo
        <3>2. slot[h] \in Slots /\ st \in Statuses /\ version[slot[h].session] \in Nat
            BY <2>2, <1>1 DEF Rows, RefreshedSo, Statuses
        <3> QED BY <3>1, <3>2, CloseFields DEF Closed
    <2> QED BY <2>1, <2>2, <1>4
<1>8. SlotStep BY <1>3, <1>7 DEF SlotStep
<1>9. NoneIssued BY <1>2, <1>3, <1>5 DEF NoneIssued, IssuedUpTo
<1> QED BY <1>6, <1>8, <1>9

(* A read of the context takes nothing away that stood. *)
LEMMA RefreshedStands ==
    ASSUME IInv, NEW s \in Sessions, NEW h \in Handles, Stands(slot, turn, h)
    PROVE  Stands(Refreshed(s), turn, h)
<1>1. PICK new : new = Refreshed(s) OBVIOUS
<1>2. new[h] = slot[h] \/ RefreshedSo(new, h, s) BY <1>1, RefreshCloses
<1>3. Rows(slot) /\ version \in [Sessions -> Nat] BY DEF IInv, StoreInv, CounterInv
<1>4. CASE new[h] = slot[h] BY <1>1, <1>4 DEF Stands
<1>5. CASE RefreshedSo(new, h, s)
    <2>1. PICK st \in {"expired", "invalidated"} :
            Closed(new, h, st) /\ (st = "expired" \/ ~turn[slot[h].origin].evidence)
        BY <1>5 DEF RefreshedSo
    <2>2. slot[h] \in Slots /\ st \in Statuses /\ version[slot[h].session] \in Nat
        BY <1>5, <1>3 DEF Rows, RefreshedSo, Statuses
    <2>3. new[h].status = st /\ new[h].origin = slot[h].origin
        BY <2>1, <2>2, CloseFields DEF Closed
    <2> QED BY <1>1, <2>1, <2>3 DEF Stands
<1> QED BY <1>2, <1>4, <1>5

LEMMA FactsRead ==
    ASSUME NEW slots, NEW s, NEW h \in FactsOf(slots, s)
    PROVE  h \in Handles /\ slots[h].session = s /\ slots[h].status = "active"
BY DEF FactsOf

(* The origin of a slot has ended before: the turn at hand is another.      *)
LEMMA StandsWhateverEnds ==
    ASSUME IInv, ContextAssumption, SlotStep, NoneIssued, StoreInv',
           NEW t \in Turns, turn[t].at # "done", NEW r, turn' = [turn EXCEPT ![t] = r],
           NEW h \in Handles, NEW s \in Sessions, slot'[h].session = s,
           Stands(slot', turn, h)
    PROVE  Stands(slot', turn', h)
<1>1. /\ StoreInv /\ OriginsEnded /\ turn \in [Turns -> TurnStates] BY DEF IInv, TurnInv
<1>2. IsIssued(slot', h)
    <2>1. Rows(slot') BY DEF StoreInv
    <2>2. s # None BY DEF ContextAssumption
    <2> QED BY <2>1, <2>2 DEF Rows, IsIssued
<1>3. IsIssued(slot, h) BY <1>2 DEF NoneIssued
<1>4. slot'[h].origin = slot[h].origin BY <1>3 DEF SlotStep
<1>5. slot[h].origin \in Turns BY <1>1, <1>3 DEF StoreInv, Rows, IsIssued
<1>6. turn[slot[h].origin].at = "done" BY <1>1, <1>3 DEF OriginsEnded
<1>7. turn'[slot[h].origin] = turn[slot[h].origin] BY <1>1, <1>5, <1>6
<1> QED BY <1>4, <1>7 DEF Stands

(***************************************************************************)
(* Starts and ends of turns                                                *)
(***************************************************************************)
(* Nobody else works in session s. *)
Alone(t, s) == \A u \in Turns : u # t /\ turn[u].session = s => ~Works(u)

LEMMA AloneAtStart ==
    ASSUME NEW s, NEW t \in Turns, MayStart(s, t)
    PROVE  Alone(t, s) /\ turn[t].at = "idle"
BY DEF MayStart, Alone, Works

LEMMA AloneAtWork ==
    ASSUME IInv, NEW t \in Turns, Works(t)
    PROVE  /\ turn[t].session \in Sessions /\ Alone(t, turn[t].session)
           /\ turn[t] \in TurnStates /\ turn[t].at # "done"
           /\ turn[t].revision \in 1 .. revision
           /\ turn[t].version <= version[turn[t].session]
           /\ \A h \in turn[t].facts :
                 /\ h \in Handles /\ slot[h].session = turn[t].session
                 /\ slot[h].status = "active" \/ slot[h].closed >= turn[t].version
                 /\ turn[t].version = version[turn[t].session] => Stands(slot, turn, h)
<1>1. OneWorks /\ TurnInv /\ FactsHold BY DEF IInv
<1>2. turn[t].at \in {"planning", "executing"} BY DEF Works
<1>3. turn[t] \in TurnStates BY <1>1 DEF TurnInv
<1>4. turn[t].facts \subseteq Handles BY <1>3 DEF TurnStates
<1>5. Alone(t, turn[t].session) BY <1>1 DEF OneWorks, Alone
<1> QED BY <1>1, <1>2, <1>3, <1>4, <1>5 DEF TurnInv, FactsHold

LEMMA PlansTyped == NoPlan \in Plans /\ NoQuestion \in Questions
<1>1. <<>> \in Seq(Parameter) /\ <<>> \in Seq(Handles \cup {0}) OBVIOUS
<1> QED BY <1>1 DEF NoPlan, Plans, NoQuestion, Questions

LEMMA NotAcceptedTyped ==
    /\ NotAccepted \in TurnStates
    /\ NotAccepted.facts = {} /\ NotAccepted.version = 0
BY PlansTyped DEF NotAccepted, TurnStates

(* complete_turn without new slots. *)
LEMMA TurnFinishes ==
    ASSUME IInv, ContextAssumption, StoreInv', SlotStep, NoneIssued,
           NEW t \in Turns, turn[t].at # "done", NEW s \in Sessions, Alone(t, s),
           NEW held \in TurnStates, held.session = s, held.revision \in 1 .. revision,
           NEW asked \in Questions, Finish(t, held, FALSE, asked),
           time' = time, revision' = revision, faults' = faults,
           asked.version <= version[s] + 1,
           \A h \in Offered(asked) :
                /\ h \in Handles /\ slot'[h].session = s
                /\ asked.version = version[s] + 1 => Stands(slot', turn, h)
    PROVE  IInv'
<1> DEFINE r == [NotAccepted EXCEPT !.at = "done", !.session = held.session,
                                    !.revision = held.revision, !.evidence = FALSE]
<1>1. /\ r \in TurnStates /\ r.at = "done" /\ r.session = s /\ r.revision = held.revision
      /\ r.facts = {} /\ r.version = 0
    BY NotAcceptedTyped DEF TurnStates
<1>2. version \in [Sessions -> Nat] /\ faults \in 0 .. MaxFaults BY DEF IInv, CounterInv
<1>3. PICK v \in Nat : v = version[s] + 1 BY <1>2
<1>4. turn' = [turn EXCEPT ![t] = r] BY DEF Finish
<1>5. version' = [version EXCEPT ![s] = v] BY <1>2, <1>3 DEF Finish
<1>6. question' = [question EXCEPT ![s] = asked] BY DEF Finish
<1> HIDE DEF r
<1>7. \A h \in Offered(asked) :
          /\ h \in Handles /\ slot'[h].session = s
          /\ asked.version = v => Stands(slot', turn', h)
    BY <1>3, <1>4, StandsWhateverEnds
<1>8. \A u \in Turns : u # t /\ turn[u].session = s => ~Works(u) BY DEF Alone
<1>9. \A h \in Handles : ~IsIssued(slot, h) /\ IsIssued(slot', h) =>
          slot'[h].origin = t /\ r.at = "done"
    BY DEF NoneIssued
<1>10. /\ r.at # "idle" /\ r.revision \in 1 .. revision /\ r.version <= v
       /\ r.at # "done" =>
            /\ asked.kind = "none"
            /\ \A h \in r.facts :
                  /\ slot'[h].status = "active" \/ slot'[h].closed >= r.version
                  /\ r.version = v => Stands(slot', turn', h)
       /\ \A h \in r.facts : slot'[h].session = s
       /\ version[s] <= v /\ asked.version <= v
    BY <1>1, <1>2, <1>3
<1>11. r.session = s /\ r \in TurnStates BY <1>1
<1>12. faults' \in 0 .. MaxFaults BY <1>2
<1>13. MovesTo(t, s, r, asked, v) BY <1>4, <1>5, <1>6, <1>12 DEF MovesTo
<1>14. HoldsWell(t, s, r, asked, v) BY <1>3, <1>7, <1>8, <1>9, <1>10, <1>11 DEF HoldsWell
<1> QED BY <1>13, <1>14, TurnMoves

LEMMA TurnGoesOn ==
    ASSUME IInv, ContextAssumption, StoreInv', SlotStep, NoneIssued,
           NEW t \in Turns, turn[t].at # "done", NEW s \in Sessions, Alone(t, s),
           NEW r \in TurnStates, r.at \in {"planning", "executing"}, r.session = s,
           r.revision \in 1 .. revision, r.version <= version[s],
           turn' = [turn EXCEPT ![t] = r], question' = [question EXCEPT ![s] = NoQuestion],
           version' = version, time' = time, revision' = revision, faults' = faults,
           \A h \in r.facts :
                /\ h \in Handles /\ slot'[h].session = s
                /\ slot'[h].status = "active" \/ slot'[h].closed >= r.version
                /\ r.version = version[s] => Stands(slot', turn, h)
    PROVE  IInv'
<1>1. version \in [Sessions -> Nat] /\ faults \in 0 .. MaxFaults BY DEF IInv, CounterInv
<1>2. PICK v \in Nat : v = version[s] BY <1>1
<1>8. version' = [version EXCEPT ![s] = v] BY <1>1, <1>2
<1>3. NoQuestion \in Questions /\ NoQuestion.kind = "none" /\ Offered(NoQuestion) = {}
      /\ NoQuestion.version = 0
    BY PlansTyped DEF NoQuestion, Offered
<1>4. \A h \in r.facts :
          /\ slot'[h].session = s
          /\ slot'[h].status = "active" \/ slot'[h].closed >= r.version
          /\ r.version = v => Stands(slot', turn', h)
    BY <1>2, StandsWhateverEnds
<1>5. \A u \in Turns : u # t /\ turn[u].session = s => ~Works(u) BY DEF Alone
<1>6. \A h \in Handles : ~IsIssued(slot, h) /\ IsIssued(slot', h) =>
          slot'[h].origin = t /\ r.at = "done"
    BY DEF NoneIssued
<1>7. /\ r.at # "idle" /\ version[s] <= v /\ NoQuestion.version <= v /\ r.version <= v
      /\ \A h \in Offered(NoQuestion) :
            h \in Handles /\ slot'[h].session = s
            /\ (NoQuestion.version = v => Stands(slot', turn', h))
    BY <1>2, <1>3
<1>9. r.at # "done" =>
          /\ NoQuestion.kind = "none"
          /\ \A h \in r.facts :
                /\ slot'[h].status = "active" \/ slot'[h].closed >= r.version
                /\ r.version = v => Stands(slot', turn', h)
    BY <1>3, <1>4
<1>10. \A h \in r.facts : slot'[h].session = s BY <1>4
<1>11. faults' \in 0 .. MaxFaults /\ NoQuestion \in Questions BY <1>1, <1>3
<1>12. MovesTo(t, s, r, NoQuestion, v) BY <1>8, <1>11 DEF MovesTo
<1>13. HoldsWell(t, s, r, NoQuestion, v)
    BY <1>3, <1>5, <1>6, <1>7, <1>9, <1>10, <1>11 DEF HoldsWell
<1> QED BY <1>12, <1>13, TurnMoves

(***************************************************************************)
(* The start of a turn                                                     *)
(***************************************************************************)
LEMMA StartingTyped ==
    ASSUME IInv, NEW s \in Sessions, NEW pinned \in 1 .. revision
    PROVE  LET r == Starting(s, pinned)
           IN  /\ r \in TurnStates /\ r.at = "planning" /\ r.session = s
               /\ r.version = version[s] /\ r.revision = pinned
               /\ r.facts = FactsOf(Refreshed(s), s)
               /\ \A h \in r.facts :
                     /\ h \in Handles /\ Refreshed(s)[h].session = s
                     /\ Refreshed(s)[h].status = "active" /\ Stands(Refreshed(s), turn, h)
<1>1. version[s] \in Nat /\ revision \in Nat BY DEF IInv, CounterInv
<1>2. FactsOf(Refreshed(s), s) \subseteq Handles BY DEF FactsOf
<1>3. ASSUME NEW h \in FactsOf(Refreshed(s), s)
      PROVE  /\ h \in Handles /\ Refreshed(s)[h].session = s
             /\ Refreshed(s)[h].status = "active" /\ Stands(Refreshed(s), turn, h)
    BY FactsRead DEF Stands
<1>4. PICK facts : facts = FactsOf(Refreshed(s), s) OBVIOUS
<1>5. PICK v \in Nat : v = version[s] BY <1>1
<1>6. PICK r : r = [NotAccepted EXCEPT !.at = "planning", !.session = s, !.version = v,
                                       !.revision = pinned, !.facts = facts]
    OBVIOUS
<1>7. Starting(s, pinned) = r BY <1>4, <1>5, <1>6 DEF Starting
<1>8. pinned \in Nat /\ facts \in SUBSET Handles BY <1>1, <1>2, <1>4
<1>9. /\ r \in TurnStates /\ r.at = "planning" /\ r.session = s
      /\ r.version = v /\ r.revision = pinned /\ r.facts = facts
    BY <1>6, <1>8, NotAcceptedTyped DEF TurnStates
<1> QED BY <1>3, <1>4, <1>5, <1>7, <1>9

(* A turn that starts on the refreshed context and goes on. *)
LEMMA TurnStarts ==
    ASSUME IInv, ContextAssumption, NEW s \in Sessions, NEW t \in Turns, MayStart(s, t),
           slot' = Refreshed(s), NEW pinned \in 1 .. revision,
           NEW r \in TurnStates, r.at \in {"planning", "executing"}, r.session = s,
           r.revision = pinned, r.version = version[s], r.facts = Starting(s, pinned).facts,
           turn' = [turn EXCEPT ![t] = r], question' = [question EXCEPT ![s] = NoQuestion],
           version' = version, time' = time, revision' = revision, faults' = faults
    PROVE  IInv'
<1>1. StoreInv' /\ SlotStep /\ NoneIssued BY SlotsRefreshed
<1>2. Alone(t, s) /\ turn[t].at # "done" BY AloneAtStart
<1>3. \A h \in r.facts :
          /\ h \in Handles /\ slot'[h].session = s
          /\ slot'[h].status = "active" \/ slot'[h].closed >= r.version
          /\ r.version = version[s] => Stands(slot', turn, h)
    BY StartingTyped
<1>4. r.revision \in 1 .. revision /\ r.version <= version[s] BY DEF IInv, CounterInv
<1> QED BY <1>1, <1>2, <1>3, <1>4, TurnGoesOn

LEMMA StartMessageKeeps ==
    ASSUME IInv, ContextAssumption, NEW s \in Sessions, NEW t \in Turns, StartMessage(s, t)
    PROVE  IInv'
<1>1. PICK pinned \in 1 .. revision : pinned = revision BY DEF IInv, CounterInv
<1>2. PICK r : r = Starting(s, pinned) OBVIOUS
<1>3. /\ r \in TurnStates /\ r.at = "planning" /\ r.session = s
      /\ r.version = version[s] /\ r.revision = pinned
      /\ r.facts = Starting(s, pinned).facts
    BY <1>2, StartingTyped
<1>4. /\ MayStart(s, t) /\ slot' = Refreshed(s) /\ turn' = [turn EXCEPT ![t] = r]
      /\ question' = [question EXCEPT ![s] = NoQuestion]
      /\ version' = version /\ time' = time /\ revision' = revision /\ faults' = faults
    BY <1>1, <1>2 DEF StartMessage
<1> QED BY <1>3, <1>4, TurnStarts

LEMMA ClaimedRevision ==
    ASSUME IInv, NEW s, NEW kind, Claimable(s, kind)
    PROVE  question[s].revision \in 1 .. revision
BY DEF IInv, CounterInv, Claimable

LEMMA ChooseMeaningKeeps ==
    ASSUME IInv, ContextAssumption, NEW s \in Sessions, NEW t \in Turns,
           NEW h \in Handles \cup {0}, ChooseMeaning(s, t, h)
    PROVE  IInv'
<1>1. PICK pinned \in 1 .. revision : pinned = question[s].revision
    BY ClaimedRevision DEF ChooseMeaning
<1>2. PICK start : start = Starting(s, pinned) OBVIOUS
<1>3. /\ start \in TurnStates /\ start.at = "planning" /\ start.session = s
      /\ start.version = version[s] /\ start.revision = pinned
      /\ start.facts = Starting(s, pinned).facts
    BY <1>2, StartingTyped
<1>4. PICK r : r = [start EXCEPT !.fixed = {h}] OBVIOUS
<1>5. /\ r \in TurnStates /\ r.at = "planning" /\ r.session = s
      /\ r.version = version[s] /\ r.revision = pinned
      /\ r.facts = Starting(s, pinned).facts
    BY <1>3, <1>4 DEF TurnStates
<1>6. /\ MayStart(s, t) /\ slot' = Refreshed(s) /\ turn' = [turn EXCEPT ![t] = r]
      /\ question' = [question EXCEPT ![s] = NoQuestion]
      /\ version' = version /\ time' = time /\ revision' = revision /\ faults' = faults
    BY <1>1, <1>2, <1>4 DEF ChooseMeaning
<1> QED BY <1>5, <1>6, TurnStarts

LEMMA ChooseCandidateKeeps ==
    ASSUME IInv, ContextAssumption, NEW s \in Sessions, NEW t \in Turns, ChooseCandidate(s, t)
    PROVE  IInv'
<1>1. PICK pinned \in 1 .. revision : pinned = question[s].revision
    BY ClaimedRevision DEF ChooseCandidate
<1>2. PICK start : start = Starting(s, pinned) OBVIOUS
<1>3. /\ start \in TurnStates /\ start.session = s
      /\ start.version = version[s] /\ start.revision = pinned
      /\ start.facts = Starting(s, pinned).facts
    BY <1>2, StartingTyped
<1>4. PICK plan \in Plans : plan = question[s].plan
    BY DEF IInv, QuestionInv, Questions
<1>5. PICK r : r = [start EXCEPT !.at = "executing", !.plan = plan] OBVIOUS
<1>6. /\ r \in TurnStates /\ r.at = "executing" /\ r.session = s
      /\ r.version = version[s] /\ r.revision = pinned
      /\ r.facts = Starting(s, pinned).facts
    BY <1>3, <1>5 DEF TurnStates
<1>7. /\ MayStart(s, t) /\ slot' = Refreshed(s) /\ turn' = [turn EXCEPT ![t] = r]
      /\ question' = [question EXCEPT ![s] = NoQuestion]
      /\ version' = version /\ time' = time /\ revision' = revision /\ faults' = faults
    BY <1>1, <1>2, <1>4, <1>5 DEF ChooseCandidate
<1> QED BY <1>6, <1>7, TurnStarts

(***************************************************************************)
(* The bindings of a plan                                                  *)
(***************************************************************************)
LEMMA CompatibleRead ==
    ASSUME NEW parameter, NEW facts
    PROVE  Compatible(parameter, facts) \subseteq facts
BY DEF Compatible

LEMMA BoundTyped ==
    ASSUME NEW held \in TurnStates, NEW plan \in Plans, NEW pinned,
           \A i \in DOMAIN plan.bind : ~Decides(held, plan, pinned, i)
    PROVE  Bound(held, plan, pinned) \in Plans
<1> DEFINE choice(i) == IF i \in pinned THEN plan.bind[i]
                        ELSE CHOOSE h \in Compatible(plan.shape[i], held.facts) : TRUE
<1>1. /\ plan.shape \in Seq(Parameter) /\ plan.bind \in Seq(Handles \cup {0})
      /\ held.facts \subseteq Handles
      /\ plan = [shape |-> plan.shape, bind |-> plan.bind]
    BY DEF Plans, TurnStates
<1>2. ASSUME NEW i \in DOMAIN plan.bind PROVE choice(i) \in Handles \cup {0}
    <2>1. CASE i \in pinned BY <2>1, <1>1
    <2>2. CASE i \notin pinned
        <3>1. Cardinality(Compatible(plan.shape[i], held.facts)) = 1 BY <2>2, <1>2 DEF Decides
        <3>2. Compatible(plan.shape[i], held.facts) # {} BY <3>1, FS_EmptySet
        <3>3. choice(i) \in Compatible(plan.shape[i], held.facts) BY <2>2, <3>2
        <3> QED BY <3>3, <1>1, CompatibleRead
    <2> QED BY <2>1, <2>2
<1>3. Bound(held, plan, pinned) = [plan EXCEPT !.bind = [i \in DOMAIN plan.bind |-> choice(i)]]
    BY DEF Bound
<1> HIDE DEF choice
<1>4. DOMAIN plan.bind = 1 .. Len(plan.bind) /\ Len(plan.bind) \in Nat BY <1>1
<1>5. PICK bind : bind = [i \in DOMAIN plan.bind |-> choice(i)] OBVIOUS
<1>6. bind \in [1 .. Len(plan.bind) -> Handles \cup {0}] BY <1>2, <1>4, <1>5
<1>7. bind \in Seq(Handles \cup {0}) BY <1>4, <1>6
<1>8. [plan EXCEPT !.bind = bind] = [shape |-> plan.shape, bind |-> bind] BY <1>1
<1> QED BY <1>1, <1>3, <1>5, <1>7, <1>8 DEF Plans

LEMMA AskTyped ==
    ASSUME NEW kind \in {"context", "meaning", "resolver"}, NEW held \in TurnStates,
           NEW plan \in Plans, NEW target \in Nat,
           NEW choices \in SUBSET (Handles \cup {0})
    PROVE  LET asked == Ask(kind, held, plan, target, choices)
           IN  /\ asked \in Questions /\ asked.kind = kind /\ asked.target = target
               /\ asked.choices = choices /\ asked.version = held.version + 1
BY DEF Ask, Questions, TurnStates

(* What a turn holds of session s when it is prepared or ended. *)
HeldWell(held, s) ==
    /\ held \in TurnStates /\ held.session = s
    /\ held.revision \in 1 .. revision /\ held.version <= version[s]
    /\ \A h \in held.facts :
          /\ h \in Handles /\ slot'[h].session = s
          /\ slot'[h].status = "active" \/ slot'[h].closed >= held.version
          /\ held.version = version[s] => Stands(slot', turn, h)

SlotsKept == StoreInv' /\ SlotStep /\ NoneIssued

Rested == time' = time /\ revision' = revision /\ faults' = faults

LEMMA FailKeeps ==
    ASSUME IInv, ContextAssumption, SlotsKept, Rested, NEW t \in Turns, turn[t].at # "done",
           NEW s \in Sessions, Alone(t, s), NEW held \in TurnStates, held.session = s,
           held.revision \in 1 .. revision, Fail(t, held)
    PROVE  IInv'
<1>1. NoQuestion \in Questions /\ Offered(NoQuestion) = {} /\ NoQuestion.version = 0
    BY PlansTyped DEF NoQuestion, Offered
<1>2. version[s] \in Nat BY DEF IInv, CounterInv
<1>3. NoQuestion.version <= version[s] + 1 BY <1>1, <1>2
<1>4. \A h \in Offered(NoQuestion) :
          /\ h \in Handles /\ slot'[h].session = s
          /\ NoQuestion.version = version[s] + 1 => Stands(slot', turn, h)
    BY <1>1
<1>5. StoreInv' /\ SlotStep /\ NoneIssued BY DEF SlotsKept
<1>6. time' = time /\ revision' = revision /\ faults' = faults BY DEF Rested
<1>7. Finish(t, held, FALSE, NoQuestion) BY DEF Fail
<1> QED BY <1>1, <1>3, <1>4, <1>5, <1>6, <1>7, TurnFinishes

LEMMA AskKeeps ==
    ASSUME IInv, ContextAssumption, SlotsKept, Rested, NEW t \in Turns, turn[t].at # "done",
           NEW s \in Sessions, Alone(t, s), NEW held, HeldWell(held, s),
           NEW kind \in {"context", "meaning", "resolver"}, NEW plan \in Plans,
           NEW target \in Nat, NEW choices \in SUBSET (Handles \cup {0}),
           kind = "context" => choices \subseteq held.facts,
           Finish(t, held, FALSE, Ask(kind, held, plan, target, choices))
    PROVE  IInv'
<1>1. /\ held \in TurnStates /\ held.session = s
      /\ held.revision \in 1 .. revision /\ held.version <= version[s]
      /\ \A h \in held.facts :
            /\ h \in Handles /\ slot'[h].session = s
            /\ held.version = version[s] => Stands(slot', turn, h)
    BY DEF HeldWell
<1>2. PICK asked : asked = Ask(kind, held, plan, target, choices) OBVIOUS
<1>3. /\ asked \in Questions /\ asked.kind = kind /\ asked.choices = choices
      /\ asked.version = held.version + 1
    BY <1>1, <1>2, AskTyped
<1>4. Offered(asked) \subseteq held.facts BY <1>3 DEF Offered
<1>5. version[s] \in Nat /\ held.version \in Nat BY <1>1 DEF IInv, CounterInv, TurnStates
<1>6. asked.version <= version[s] + 1 BY <1>1, <1>3, <1>5
<1>7. \A h \in Offered(asked) :
          /\ h \in Handles /\ slot'[h].session = s
          /\ asked.version = version[s] + 1 => Stands(slot', turn, h)
    BY <1>1, <1>3, <1>4, <1>5
<1>8. StoreInv' /\ SlotStep /\ NoneIssued BY DEF SlotsKept
<1>9. time' = time /\ revision' = revision /\ faults' = faults BY DEF Rested
<1>10. Finish(t, held, FALSE, asked) BY <1>2
<1> QED BY <1>1, <1>3, <1>6, <1>7, <1>8, <1>9, <1>10, TurnFinishes

LEMMA PrepareKeeps ==
    ASSUME IInv, ContextAssumption, SlotsKept, Rested, NEW t \in Turns, turn[t].at # "done",
           NEW s \in Sessions, Alone(t, s), NEW held, HeldWell(held, s),
           NEW slots, NEW plan \in Plans, NEW pinned,
           Prepare(t, held, slots, plan, pinned)
    PROVE  IInv'
<1>1. /\ held \in TurnStates /\ held.session = s
      /\ held.revision \in 1 .. revision /\ held.version <= version[s]
      /\ \A h \in held.facts :
            /\ h \in Handles /\ slot'[h].session = s
            /\ slot'[h].status = "active" \/ slot'[h].closed >= held.version
            /\ held.version = version[s] => Stands(slot', turn, h)
    BY DEF HeldWell
<1>2. PICK refused :
        refused = {i \in DOMAIN plan.bind : Refuses(slots, held, plan, pinned, i)}
    OBVIOUS
<1>3. PICK open : open = {i \in DOMAIN plan.bind : Decides(held, plan, pinned, i)}
    OBVIOUS
<1>4. PICK first : first = Min(refused \cup open) OBVIOUS
<1>5. PICK choices : choices = Compatible(plan.shape[first], held.facts) OBVIOUS
<1>6. IF refused \cup open = {}
      THEN /\ turn' = [turn EXCEPT ![t] =
                         [held EXCEPT !.at = "executing", !.plan = Bound(held, plan, pinned)]]
           /\ question' = [question EXCEPT ![s] = NoQuestion]
           /\ version' = version
      ELSE IF first \in refused THEN Fail(t, held)
      ELSE Finish(t, held, FALSE,
                  IF choices = {} THEN NoQuestion
                  ELSE Ask("context", held, plan, first, choices))
    BY <1>1, <1>2, <1>3, <1>4, <1>5 DEF Prepare
<1>7. CASE refused \cup open = {}
    <2>1. \A i \in DOMAIN plan.bind : ~Decides(held, plan, pinned, i) BY <1>3, <1>7
    <2>2. PICK bound \in Plans : bound = Bound(held, plan, pinned)
        BY <1>1, <2>1, BoundTyped
    <2>3. PICK r : r = [held EXCEPT !.at = "executing", !.plan = bound] OBVIOUS
    <2>4. /\ r \in TurnStates /\ r.at = "executing" /\ r.session = s
          /\ r.revision = held.revision /\ r.version = held.version /\ r.facts = held.facts
        BY <1>1, <2>3 DEF TurnStates
    <2>5. /\ turn' = [turn EXCEPT ![t] = r] /\ question' = [question EXCEPT ![s] = NoQuestion]
          /\ version' = version
        BY <1>6, <1>7, <2>2, <2>3
    <2>6. \A h \in r.facts :
              /\ h \in Handles /\ slot'[h].session = s
              /\ slot'[h].status = "active" \/ slot'[h].closed >= r.version
              /\ r.version = version[s] => Stands(slot', turn, h)
        BY <1>1, <2>4
    <2>7. r.at \in {"planning", "executing"} /\ r.revision \in 1 .. revision
          /\ r.version <= version[s]
        BY <1>1, <2>4
    <2>8. StoreInv' /\ SlotStep /\ NoneIssued BY DEF SlotsKept
    <2>9. time' = time /\ revision' = revision /\ faults' = faults BY DEF Rested
    <2> QED BY <2>4, <2>5, <2>6, <2>7, <2>8, <2>9, TurnGoesOn
<1>8. CASE refused \cup open # {} /\ (first \in refused \/ choices = {})
    <2>1. Fail(t, held) BY <1>6, <1>8 DEF Fail
    <2> QED BY <2>1, <1>1, FailKeeps
<1>9. CASE refused \cup open # {} /\ first \notin refused /\ choices # {}
    <2>1. Finish(t, held, FALSE, Ask("context", held, plan, first, choices)) BY <1>6, <1>9
    <2>2. DOMAIN plan.bind \subseteq Nat BY DEF Plans
    <2>3. refused \cup open \subseteq Nat BY <2>2, <1>2, <1>3
    <2>4. first \in Nat BY <2>3, <1>4, <1>9, MinIsLeast
    <2>5. choices \subseteq held.facts BY <1>5, CompatibleRead
    <2>6. choices \in SUBSET (Handles \cup {0}) BY <2>5, <1>1
    <2> QED BY <2>1, <2>4, <2>5, <2>6, AskKeeps
<1> QED BY <1>7, <1>8, <1>9

LEMMA CancelKeeps ==
    ASSUME IInv, ContextAssumption, NEW s \in Sessions, NEW t \in Turns, Cancel(s, t)
    PROVE  IInv'
<1>1. SlotsKept BY SlotsStay DEF Cancel, SlotsKept
<1>2. Rested BY DEF Cancel, Rested
<1>3. Alone(t, s) /\ turn[t].at # "done" BY AloneAtStart DEF Cancel
<1>4. PICK pinned \in 1 .. revision : pinned = question[s].revision
    BY ClaimedRevision DEF Cancel
<1>5. PICK held : held = Starting(s, pinned) OBVIOUS
<1>6. held \in TurnStates /\ held.session = s /\ held.revision \in 1 .. revision
    BY <1>5, StartingTyped
<1>7. Fail(t, held) BY <1>4, <1>5 DEF Cancel
<1> QED BY <1>1, <1>2, <1>3, <1>6, <1>7, FailKeeps

LEMMA ChoiceTyped ==
    ASSUME NEW asked \in Questions, NEW h \in Handles
    PROVE  WithChoice(asked, h) \in Plans
<1>1. asked.plan \in Plans BY DEF Questions
<1>2. /\ asked.plan.shape \in Seq(Parameter) /\ asked.plan.bind \in Seq(Handles \cup {0})
      /\ asked.plan = [shape |-> asked.plan.shape, bind |-> asked.plan.bind]
    BY <1>1 DEF Plans
<1>3. PICK bind : bind = [asked.plan.bind EXCEPT ![asked.target] = h] OBVIOUS
<1>4. bind \in Seq(Handles \cup {0})
    <2>1. asked.plan.bind \in [1 .. Len(asked.plan.bind) -> Handles \cup {0}]
          /\ Len(asked.plan.bind) \in Nat
        BY <1>2
    <2>2. bind \in [1 .. Len(asked.plan.bind) -> Handles \cup {0}] BY <1>3, <2>1
    <2> QED BY <2>1, <2>2
<1>5. WithChoice(asked, h) = [asked.plan EXCEPT !.bind = bind] BY <1>3 DEF WithChoice
<1>6. WithChoice(asked, h) = [shape |-> asked.plan.shape, bind |-> bind] BY <1>2, <1>5
<1> QED BY <1>2, <1>4, <1>6 DEF Plans

LEMMA ChooseContextKeeps ==
    ASSUME IInv, ContextAssumption, NEW s \in Sessions, NEW t \in Turns, NEW h \in Handles,
           ChooseContext(s, t, h)
    PROVE  IInv'
<1>1. slot' = Refreshed(s) /\ MayStart(s, t) /\ Claimable(s, "context")
    BY DEF ChooseContext
<1>2. SlotsKept BY <1>1, SlotsRefreshed DEF SlotsKept
<1>3. Rested BY DEF ChooseContext, Rested
<1>4. Alone(t, s) /\ turn[t].at # "done" BY <1>1, AloneAtStart
<1>5. PICK pinned \in 1 .. revision : pinned = question[s].revision
    BY <1>1, ClaimedRevision
<1>6. PICK held : held = Starting(s, pinned) OBVIOUS
<1>7. /\ held \in TurnStates /\ held.session = s /\ held.version = version[s]
      /\ held.revision = pinned
      /\ \A g \in held.facts :
            /\ g \in Handles /\ Refreshed(s)[g].session = s
            /\ Refreshed(s)[g].status = "active" /\ Stands(Refreshed(s), turn, g)
    BY <1>6, StartingTyped
<1>8. version[s] \in Nat BY DEF IInv, CounterInv
<1>9. HeldWell(held, s) BY <1>1, <1>7, <1>8 DEF HeldWell
<1>10. PICK asked \in Questions : asked = question[s] BY DEF IInv, QuestionInv
<1>11. WithChoice(asked, h) \in Plans BY ChoiceTyped
<1>12. Prepare(t, held, Refreshed(s), WithChoice(asked, h), {asked.target})
    BY <1>5, <1>6, <1>10 DEF ChooseContext
<1>13. PICK slots : slots = Refreshed(s) OBVIOUS
<1>14. Prepare(t, held, slots, WithChoice(asked, h), {asked.target}) BY <1>12, <1>13
<1> QED BY <1>2, <1>3, <1>4, <1>9, <1>11, <1>14, PrepareKeeps

LEMMA PlannerDecidesKeeps ==
    ASSUME IInv, ContextAssumption, NEW t \in Turns, PlannerDecides(t)
    PROVE  IInv'
<1>1. Works(t) /\ slot' = slot BY DEF PlannerDecides, Works
<1>2. SlotsKept BY <1>1, SlotsStay DEF SlotsKept
<1>3. Rested BY DEF PlannerDecides, Rested
<1>4. PICK held : held = turn[t] OBVIOUS
<1>5. PICK s \in Sessions : s = held.session BY <1>1, <1>4, AloneAtWork
<1>6. HeldWell(held, s) /\ Alone(t, s) /\ turn[t].at # "done"
    BY <1>1, <1>4, <1>5, AloneAtWork DEF HeldWell
<1>7. CASE Fail(t, held)
    <2>1. held \in TurnStates /\ held.revision \in 1 .. revision BY <1>6 DEF HeldWell
    <2> QED BY <2>1, <1>2, <1>3, <1>5, <1>6, <1>7, FailKeeps
<1>8. ASSUME NEW choices \in MeaningChoices,
             Finish(t, held, FALSE, Ask("meaning", held, NoPlan, 0, choices))
      PROVE  IInv'
    <2>1. choices \in SUBSET (Handles \cup {0}) BY DEF MeaningChoices, Issued
    <2>2. 0 \in Nat OBVIOUS
    <2> QED BY <2>1, <2>2, <1>2, <1>3, <1>6, <1>8, PlansTyped, AskKeeps
<1> QED BY <1>4, <1>7, <1>8 DEF PlannerDecides

LEMMA PlannerPlansKeeps ==
    ASSUME IInv, ContextAssumption, NEW t \in Turns, PlannerPlans(t)
    PROVE  IInv'
<1>1. Works(t) BY DEF PlannerPlans, Works
<1>2. PICK held : held = turn[t] OBVIOUS
<1>3. PICK s \in Sessions : s = held.session BY <1>1, <1>2, AloneAtWork
<1>4. slot' = Refreshed(s) BY <1>2, <1>3 DEF PlannerPlans
<1>5. SlotsKept BY <1>4, SlotsRefreshed DEF SlotsKept
<1>6. Rested BY DEF PlannerPlans, Rested
<1>7. /\ Alone(t, s) /\ turn[t].at # "done"
      /\ held \in TurnStates /\ held.revision \in 1 .. revision /\ held.version <= version[s]
      /\ \A h \in held.facts :
            /\ h \in Handles /\ slot[h].session = s
            /\ slot[h].status = "active" \/ slot[h].closed >= held.version
            /\ held.version = version[s] => Stands(slot, turn, h)
    BY <1>1, <1>2, <1>3, AloneAtWork
<1>8. HeldWell(held, s)
    <2>1. ASSUME NEW h \in held.facts
          PROVE  /\ slot'[h].session = s
                 /\ slot'[h].status = "active" \/ slot'[h].closed >= held.version
                 /\ held.version = version[s] => Stands(slot', turn, h)
        <3>1. Stands(slot, turn, h) => Stands(slot', turn, h) BY <1>4, <1>7, RefreshedStands
        <3>2. h \in Handles /\ slot[h].session = s BY <1>7
        <3>3. IsIssued(slot, h) BY <3>2, SlotsTyped
        <3>4. /\ slot'[h].session = s
              /\ slot'[h] = slot[h] \/ slot'[h].closed = version[s]
            BY <1>5, <3>2, <3>3 DEF SlotsKept, SlotStep
        <3>5. version[s] \in Nat /\ held.version \in Nat
            BY <1>7 DEF IInv, CounterInv, TurnStates
        <3>6. slot'[h].status = "active" \/ slot'[h].closed >= held.version
            BY <3>4, <3>5, <1>7
        <3> QED BY <3>1, <3>4, <3>6, <1>7
    <2> QED BY <2>1, <1>3, <1>7 DEF HeldWell
<1>20. PICK shape \in Shapes : \E bind \in [DOMAIN shape -> Issued \cup {0}] :
          \E chosen \in ChosenTargets(held, bind) :
            IF held.fixed # {} /\ chosen = {} THEN Fail(t, held)
            ELSE Prepare(t, held, Refreshed(s), [shape |-> shape, bind |-> bind], chosen)
    BY <1>2, <1>3 DEF PlannerPlans
<1>21. PICK bind \in [DOMAIN shape -> Issued \cup {0}] :
          \E chosen \in ChosenTargets(held, bind) :
            IF held.fixed # {} /\ chosen = {} THEN Fail(t, held)
            ELSE Prepare(t, held, Refreshed(s), [shape |-> shape, bind |-> bind], chosen)
    BY <1>20
<1>9. PICK chosen \in ChosenTargets(held, bind) :
          IF held.fixed # {} /\ chosen = {} THEN Fail(t, held)
          ELSE Prepare(t, held, Refreshed(s), [shape |-> shape, bind |-> bind], chosen)
    BY <1>21
<1>10. PICK plan : plan = [shape |-> shape, bind |-> bind] OBVIOUS
<1>11. plan \in Plans
    <2>1. shape \in Seq(Parameter) BY DEF ContextAssumption
    <2>2. DOMAIN shape = 1 .. Len(shape) /\ Len(shape) \in Nat BY <2>1
    <2>3. Issued \subseteq Handles BY DEF Issued
    <2>4. bind \in [1 .. Len(shape) -> Handles \cup {0}] BY <2>2, <2>3
    <2>5. bind \in Seq(Handles \cup {0}) BY <2>2, <2>4
    <2> QED BY <2>1, <2>5, <1>10 DEF Plans
<1>12. CASE Fail(t, held) BY <1>3, <1>5, <1>6, <1>7, <1>12, FailKeeps
<1>13. ASSUME NEW slots, NEW pinned, Prepare(t, held, slots, plan, pinned)
       PROVE  IInv'
    BY <1>5, <1>6, <1>7, <1>8, <1>11, <1>13, PrepareKeeps
<1>14. PICK slots : slots = Refreshed(s) OBVIOUS
<1>15. Fail(t, held) \/ Prepare(t, held, slots, plan, chosen)
    BY <1>9, <1>10, <1>14
<1> QED BY <1>12, <1>13, <1>15

LEMMA TurnFailsKeeps ==
    ASSUME IInv, ContextAssumption, NEW t \in Turns, TurnFails(t)
    PROVE  IInv'
<1>1. Works(t) /\ slot' = slot BY DEF TurnFails, Works
<1>2. SlotsKept BY <1>1, SlotsStay DEF SlotsKept
<1>3. Rested BY DEF TurnFails, Rested
<1>4. PICK held : held = turn[t] OBVIOUS
<1>5. PICK s \in Sessions : s = held.session BY <1>1, <1>4, AloneAtWork
<1>6. /\ held \in TurnStates /\ held.revision \in 1 .. revision
      /\ Alone(t, s) /\ turn[t].at # "done"
    BY <1>1, <1>4, <1>5, AloneAtWork
<1>7. Fail(t, held) BY <1>4 DEF TurnFails
<1> QED BY <1>2, <1>3, <1>5, <1>6, <1>7, FailKeeps

(* Commits make a step of the slots whenever the version moves on. *)
LEMMA KeepsIsStep ==
    ASSUME Rows(slot), NEW t, NEW s \in Sessions, Keeps(slot, slot', t, s),
           version[s] \in Nat, version'[s] \in Nat, version[s] < version'[s]
    PROVE  SlotStep
<1> SUFFICES ASSUME NEW h \in Handles, IsIssued(slot, h)
             PROVE  /\ slot'[h].session = slot[h].session /\ slot'[h].origin = slot[h].origin
                    /\ \/ slot'[h] = slot[h]
                       \/ /\ slot[h].status = "active"
                          /\ slot'[h].closed = version[slot[h].session]
                          /\ \/ slot'[h].status = "expired"
                             \/ ~turn[slot[h].origin].evidence
                             \/ version[slot[h].session] < version'[slot[h].session]
    BY DEF SlotStep
<1>1. slot'[h] = slot[h] \/ Replaced(slot, slot', h, s) BY DEF Keeps
<1>2. CASE slot'[h] = slot[h] BY <1>2
<1>3. CASE Replaced(slot, slot', h, s)
    <2>1. slot[h].status = "active" /\ slot[h].session = s BY <1>3 DEF Replaced
    <2>2. PICK r \in Handles :
            slot'[h] = [Close(slot[h], "replaced", version[s]) EXCEPT !.replacedBy = r]
        BY <1>3 DEF Replaced
    <2>3. slot[h] \in Slots BY DEF Rows
    <2>4. /\ slot'[h].session = slot[h].session /\ slot'[h].origin = slot[h].origin
          /\ slot'[h].closed = version[s]
        BY <2>2, <2>3 DEF Close, Slots
    <2> QED BY <2>1, <2>4
<1> QED BY <1>1, <1>2, <1>3

LEMMA CommitsStep ==
    ASSUME IInv, ContextAssumption, NEW t \in Turns, Works(t),
           NEW exports \in Exported, Cardinality(Issued) + Len(exports) <= MaxHandles,
           slot' = Commits(t, exports, time + 1)
    PROVE  StoreInv' /\ Keeps(slot, slot', t, turn[t].session)
<1>1. /\ Rows(slot) /\ Chain(slot) /\ time \in 0 .. MaxTime
      /\ MaxHandles \in Nat /\ MaxTime \in Nat /\ version \in [Sessions -> Nat]
    BY DEF IInv, StoreInv, CounterInv, ContextAssumption
<1>2. PICK k \in 0 .. MaxHandles : IssuedUpTo(slot, k) BY DEF IInv, StoreInv
<1>3. Issued = 1 .. k BY <1>1, <1>2 DEF Issued, IssuedUpTo, IsIssued, Handles
<1>4. Cardinality(Issued) = k BY <1>1, <1>3, FS_Interval
<1>5. exports \in Seq(Contract) BY DEF ContextAssumption
<1>6. k + Len(exports) <= MaxHandles BY <1>4
<1>7. PICK due \in 0 .. Never : due = time + 1 BY <1>1 DEF Never
<1>8. turn[t].session \in Sessions /\ version[turn[t].session] \in Nat
    BY <1>1, AloneAtWork
<1>9. slot' = Commits(t, exports, due) BY <1>7
<1>10. PICK new : new = Commits(t, exports, due) OBVIOUS
<1>11. /\ Rows(new) /\ Chain(new) /\ IssuedUpTo(new, k + Len(exports))
       /\ Keeps(slot, new, t, turn[t].session)
    BY <1>1, <1>2, <1>5, <1>6, <1>8, <1>10, CommitsKeep
<1>12. k + Len(exports) \in 0 .. MaxHandles BY <1>1, <1>5, <1>6
<1>13. StoreInv' BY <1>9, <1>10, <1>11, <1>12 DEF StoreInv
<1> QED BY <1>9, <1>10, <1>11, <1>13

LEMMA ExecutorEndsKeeps ==
    ASSUME IInv, ContextAssumption, NEW t \in Turns, ExecutorEnds(t)
    PROVE  IInv'
<1>1. Works(t) BY DEF ExecutorEnds, Works
<1>2. PICK held : held = turn[t] OBVIOUS
<1>3. PICK s \in Sessions : s = held.session BY <1>1, <1>2, AloneAtWork
<1>4. /\ Alone(t, s) /\ turn[t].at # "done"
      /\ held \in TurnStates /\ held.revision \in 1 .. revision /\ held.version <= version[s]
    BY <1>1, <1>2, <1>3, AloneAtWork
<1>5. PICK exports \in Exported :
          /\ Cardinality(Issued) + Len(exports) <= MaxHandles
          /\ slot' = Commits(t, exports, time + 1)
    BY DEF ExecutorEnds
<1>6. StoreInv' /\ Keeps(slot, slot', t, s) BY <1>1, <1>2, <1>3, <1>5, CommitsStep
<1>7. Rows(slot) /\ version \in [Sessions -> Nat] /\ version[s] \in Nat
      /\ faults \in 0 .. MaxFaults /\ MaxFaults \in Nat /\ time' = time /\ revision' = revision
    BY DEF IInv, StoreInv, CounterInv, ContextAssumption, ExecutorEnds
<1>8. \A h \in Handles : ~IsIssued(slot, h) /\ IsIssued(slot', h) => slot'[h].origin = t
    BY <1>6 DEF Keeps
<1>9. held.version \in Nat /\ held.plan \in Plans BY <1>4 DEF TurnStates
<1>10. ASSUME NEW r \in TurnStates, r.at = "done", r.session = s,
              r.revision = held.revision, r.facts = {}, r.version = 0,
              NEW q \in Questions, NEW v \in Nat,
              version[s] < v, q.version <= v,
              \A h \in Offered(q) : h \in Handles /\ slot'[h].session = s /\ q.version # v,
              turn' = [turn EXCEPT ![t] = r],
              version' = [version EXCEPT ![s] = v],
              question' = [question EXCEPT ![s] = q],
              faults' \in 0 .. MaxFaults
       PROVE  IInv'
    <2>1. version'[s] = v BY <1>7, <1>10
    <2>2. SlotStep BY <2>1, <1>6, <1>7, <1>10, KeepsIsStep
    <2>3. MovesTo(t, s, r, q, v) BY <1>7, <1>10 DEF MovesTo
    <2>4. \A u \in Turns : u # t /\ turn[u].session = s => ~Works(u) BY <1>4 DEF Alone
    <2>5. version[s] <= v /\ r.version <= v BY <1>7, <1>10
    <2>6. HoldsWell(t, s, r, q, v)
        BY <2>4, <2>5, <1>4, <1>8, <1>10 DEF HoldsWell
    <2> QED BY <2>2, <2>3, <2>6, <1>6, TurnMoves
<1>11. ASSUME NEW asked \in {NoQuestion, Ask("resolver", held, held.plan, 0, {})},
              Finish(t, held, TRUE, asked), faults' = faults
       PROVE  IInv'
    <2>1. asked \in Questions /\ Offered(asked) = {}
          /\ asked.version \in {0, held.version + 1}
        <3>1. CASE asked = NoQuestion BY <3>1, PlansTyped DEF NoQuestion, Offered
        <3>2. CASE asked = Ask("resolver", held, held.plan, 0, {})
            <4>1. {} \in SUBSET (Handles \cup {0}) /\ 0 \in Nat OBVIOUS
            <4>2. /\ asked \in Questions /\ asked.choices = {}
                  /\ asked.version = held.version + 1
                BY <4>1, <3>2, <1>4, <1>9, AskTyped
            <4> QED BY <4>2 DEF Offered
        <3> QED BY <3>1, <3>2
    <2>2. PICK v \in Nat : v = version[s] + 1 BY <1>7
    <2>3. version[s] < v /\ asked.version <= v BY <2>1, <2>2, <1>4, <1>7, <1>9
    <2>7. PICK r : r = [NotAccepted EXCEPT !.at = "done", !.session = held.session,
                                           !.revision = held.revision, !.evidence = TRUE]
        OBVIOUS
    <2>8. /\ r \in TurnStates /\ r.at = "done" /\ r.session = s /\ r.revision = held.revision
          /\ r.facts = {} /\ r.version = 0
        BY <2>7, <1>3, <1>4, NotAcceptedTyped DEF TurnStates
    <2>4. /\ version' = [version EXCEPT ![s] = v] /\ question' = [question EXCEPT ![s] = asked]
          /\ turn' = [turn EXCEPT ![t] = r]
        BY <2>2, <2>7, <1>3, <1>7, <1>11 DEF Finish
    <2>5. faults' \in 0 .. MaxFaults BY <1>7, <1>11
    <2>6. \A h \in Offered(asked) :
              h \in Handles /\ slot'[h].session = s /\ asked.version # v
        BY <2>1
    <2> QED BY <2>1, <2>2, <2>3, <2>4, <2>5, <2>6, <2>8, <1>10
<1>12. ASSUME faults < MaxFaults, faults' = faults + 1,
              turn' = [turn EXCEPT ![t] =
                    [NotAccepted EXCEPT !.at = "done", !.session = held.session,
                                        !.revision = held.revision]],
              version' = [version EXCEPT ![held.session] = @ + 2],
              question' = question
       PROVE  IInv'
    <2>1. PICK v \in Nat : v = version[s] + 2 BY <1>7
    <2>2. QuestionInv BY DEF IInv
    <2>3. PICK q \in Questions : q = question[s] BY <2>2 DEF QuestionInv
    <2>4. question' = [question EXCEPT ![s] = q] BY <2>2, <2>3, <1>12 DEF QuestionInv
    <2>5. q.version <= version[s] /\ q.version \in Nat
          /\ \A h \in Offered(q) : h \in Handles /\ slot[h].session = s
        BY <2>2, <2>3 DEF QuestionInv, Questions
    <2>6. version[s] < v /\ q.version <= v /\ q.version # v BY <2>1, <2>5, <1>7
    <2>7. version' = [version EXCEPT ![s] = v] BY <2>1, <1>3, <1>7, <1>12
    <2>8. version'[s] = v BY <2>7, <1>7
    <2>9. SlotStep BY <2>6, <2>8, <1>6, <1>7, KeepsIsStep
    <2>10. ASSUME NEW h \in Offered(q)
           PROVE  h \in Handles /\ slot'[h].session = s /\ q.version # v
        <3>1. h \in Handles /\ slot[h].session = s BY <2>5
        <3>2. IsIssued(slot, h) BY <3>1, SlotsTyped
        <3> QED BY <3>1, <3>2, <2>6, <2>9 DEF SlotStep
    <2>11. PICK r : r = [NotAccepted EXCEPT !.at = "done", !.session = held.session,
                                            !.revision = held.revision]
        OBVIOUS
    <2>12. /\ r \in TurnStates /\ r.at = "done" /\ r.session = s /\ r.revision = held.revision
           /\ r.facts = {} /\ r.version = 0
        BY <2>11, <1>3, <1>4, NotAcceptedTyped DEF TurnStates
    <2>13. turn' = [turn EXCEPT ![t] = r] BY <2>11, <1>12
    <2>14. faults' \in 0 .. MaxFaults BY <1>7, <1>12
    <2> QED BY <2>4, <2>6, <2>7, <2>10, <2>12, <2>13, <2>14, <1>10
<1>13. \/ \E asked \in {NoQuestion, Ask("resolver", held, held.plan, 0, {})} :
             Finish(t, held, TRUE, asked) /\ faults' = faults
       \/ /\ faults < MaxFaults /\ faults' = faults + 1
          /\ turn' = [turn EXCEPT ![t] =
                    [NotAccepted EXCEPT !.at = "done", !.session = held.session,
                                        !.revision = held.revision]]
          /\ version' = [version EXCEPT ![held.session] = @ + 2]
          /\ question' = question
    BY <1>2 DEF ExecutorEnds
<1> QED BY <1>11, <1>12, <1>13

(***************************************************************************)
(* What does not take the lock                                             *)
(***************************************************************************)
LEMMA RemoveContextKeeps ==
    ASSUME IInv, ContextAssumption, NEW s \in Sessions, NEW g \in Handles, RemoveContext(s, g)
    PROVE  IInv'
<1>1. /\ slot[g].session = s /\ slot[g].status = "active"
      /\ slot' = [slot EXCEPT ![g] = Close(slot[g], "invalidated", version[s])]
      /\ version' = [version EXCEPT ![s] = version[s] + 1]
      /\ turn' = turn /\ question' = question /\ time' = time /\ revision' = revision
      /\ faults' = faults
    BY DEF RemoveContext
<1>2. /\ Rows(slot) /\ Chain(slot) /\ slot \in [Handles -> Slots]
      /\ CounterInv /\ version \in [Sessions -> Nat] /\ revision \in Nat
    BY DEF IInv, StoreInv, Rows, CounterInv
<1>3. PICK k \in 0 .. MaxHandles : IssuedUpTo(slot, k) BY DEF IInv, StoreInv
<1>4. PICK new : new = slot' OBVIOUS
<1>5. version[s] \in Nat /\ slot[g] \in Slots /\ "invalidated" \in Statuses
    BY <1>2 DEF Statuses
<1>6. new[g] = Close(slot[g], "invalidated", version[s]) /\ new \in [Handles -> Slots]
      /\ \A h \in Handles : h # g => new[h] = slot[h]
    BY <1>1, <1>2, <1>4, <1>5, CloseFields
<1>7. Closed(new, g, "invalidated") BY <1>1, <1>6 DEF Closed
<1>8. Closes(new) BY <1>6, <1>7 DEF Closes
<1>9. Rows(new) /\ Chain(new) /\ IssuedUpTo(new, k) BY <1>2, <1>3, <1>8, ClosingKeeps
<1>10. StoreInv' BY <1>4, <1>9 DEF StoreInv
<1>11. version' \in [Sessions -> Nat] /\ version[s] < version'[s]
       /\ \A z \in Sessions : version[z] <= version'[z]
    BY <1>1, <1>2
<1>12. SlotStep
    <2> SUFFICES ASSUME NEW h \in Handles, IsIssued(slot, h)
                 PROVE  /\ slot'[h].session = slot[h].session
                        /\ slot'[h].origin = slot[h].origin
                        /\ \/ slot'[h] = slot[h]
                           \/ /\ slot[h].status = "active"
                              /\ slot'[h].closed = version[slot[h].session]
                              /\ \/ slot'[h].status = "expired"
                                 \/ ~turn[slot[h].origin].evidence
                                 \/ version[slot[h].session] < version'[slot[h].session]
        BY DEF SlotStep
    <2>1. CASE h = g BY <2>1, <1>1, <1>4, <1>5, <1>6, <1>11, CloseFields
    <2>2. CASE h # g BY <2>2, <1>4, <1>6
    <2> QED BY <2>1, <2>2
<1>13. \A h \in Handles : IsIssued(slot', h) => IsIssued(slot, h)
    BY <1>3, <1>4, <1>9 DEF IssuedUpTo
<1>14. CounterInv' BY <1>1, <1>2, <1>11 DEF CounterInv
<1>15. revision <= revision' BY <1>1, <1>2
<1> QED BY <1>1, <1>10, <1>11, <1>12, <1>13, <1>14, <1>15, OthersMove

LEMMA ShowContextKeeps ==
    ASSUME IInv, ContextAssumption, NEW s \in Sessions, ShowContext(s)
    PROVE  IInv'
<1>1. slot' = Refreshed(s) /\ turn' = turn /\ question' = question /\ version' = version
      /\ time' = time /\ revision' = revision /\ faults' = faults
    BY DEF ShowContext
<1>2. StoreInv' /\ SlotStep /\ NoneIssued BY <1>1, SlotsRefreshed
<1>3. CounterInv BY DEF IInv
<1>4. CounterInv' BY <1>1, <1>3 DEF CounterInv
<1>5. revision <= revision' /\ \A z \in Sessions : version[z] <= version'[z]
    BY <1>1, <1>3 DEF CounterInv
<1> QED BY <1>1, <1>2, <1>4, <1>5, OthersMove DEF NoneIssued

LEMMA CountersKeep ==
    ASSUME IInv, ContextAssumption, Tick \/ ImportCatalog
    PROVE  IInv'
<1>1. slot' = slot /\ turn' = turn /\ question' = question /\ version' = version
    BY DEF Tick, ImportCatalog
<1>2. StoreInv' /\ SlotStep /\ NoneIssued BY <1>1, SlotsStay
<1>3. CounterInv /\ MaxTime \in Nat /\ MaxRevision \in Nat
    BY DEF IInv, ContextAssumption
<1>4. CounterInv' BY <1>1, <1>3 DEF CounterInv, Tick, ImportCatalog
<1>5. revision <= revision' /\ \A z \in Sessions : version[z] <= version'[z]
    BY <1>1, <1>3 DEF CounterInv, Tick, ImportCatalog
<1> QED BY <1>1, <1>2, <1>4, <1>5, OthersMove DEF NoneIssued

(***************************************************************************)
(* The theorems                                                            *)
(***************************************************************************)
LEMMA InitIInv ==
    ASSUME ContextAssumption, Init
    PROVE  IInv
<1>1. /\ slot = [h \in Handles |-> NoSlot] /\ version = [s \in Sessions |-> 1]
      /\ turn = [t \in Turns |-> NotAccepted] /\ question = [s \in Sessions |-> NoQuestion]
      /\ time = 0 /\ revision = 1 /\ faults = 0
    BY DEF Init
<1>2. /\ MaxHandles \in Nat /\ MaxTime \in Nat /\ MaxFaults \in Nat
      /\ MaxRevision \in Nat \ {0}
    BY DEF ContextAssumption
<1>3. NoSlot \in Slots /\ NoSlot.status = "none" /\ NoSlot.session = None
    BY <1>2 DEF NoSlot, Slots, Statuses, Cardinalities, Never
<1>4. \A h \in Handles : slot[h] \in Slots /\ slot[h].status = "none" /\ slot[h].session = None
    BY <1>1, <1>3
<1>5. Rows(slot) BY <1>1, <1>3, <1>4 DEF Rows
<1>6. Chain(slot) BY <1>4 DEF Chain, IsIssued
<1>7. IssuedUpTo(slot, 0) BY <1>4 DEF IssuedUpTo, IsIssued, Handles
<1>8. 0 \in 0 .. MaxHandles BY <1>2
<1>9. StoreInv BY <1>5, <1>6, <1>7, <1>8 DEF StoreInv
<1>10. OriginsEnded BY <1>4 DEF OriginsEnded, IsIssued
<1>11. \A t \in Turns : turn[t] = NotAccepted /\ turn[t].at = "idle"
    BY <1>1 DEF NotAccepted
<1>12. \A t \in Turns : ~Works(t) BY <1>11 DEF Works
<1>13. OneWorks /\ AskedByNobody /\ FactsHold
    BY <1>12 DEF OneWorks, AskedByNobody, FactsHold
<1>14. TurnInv BY <1>1, <1>11, NotAcceptedTyped DEF TurnInv
<1>15. Offered(NoQuestion) = {} /\ NoQuestion.version = 0 BY DEF NoQuestion, Offered
<1>16. QuestionInv BY <1>1, <1>15, PlansTyped DEF QuestionInv
<1>17. CounterInv BY <1>1, <1>2 DEF CounterInv
<1> QED BY <1>9, <1>10, <1>13, <1>14, <1>16, <1>17 DEF IInv

LEMMA NextIInv ==
    ASSUME ContextAssumption, IInv, [Next]_vars
    PROVE  IInv'
<1>1. ASSUME NEW s \in Sessions, NEW t \in Turns, StartTurn(s, t)
      PROVE  IInv'
    BY <1>1, StartMessageKeeps, CancelKeeps, ChooseCandidateKeeps, ChooseContextKeeps,
       ChooseMeaningKeeps DEF StartTurn
<1>2. ASSUME NEW t \in Turns,
             PlannerDecides(t) \/ PlannerPlans(t) \/ ExecutorEnds(t) \/ TurnFails(t)
      PROVE  IInv'
    BY <1>2, PlannerDecidesKeeps, PlannerPlansKeeps, ExecutorEndsKeeps, TurnFailsKeeps
<1>3. ASSUME NEW s \in Sessions, NEW h \in Handles, RemoveContext(s, h)
      PROVE  IInv'
    BY <1>3, RemoveContextKeeps
<1>4. ASSUME NEW s \in Sessions, ShowContext(s)
      PROVE  IInv'
    BY <1>4, ShowContextKeeps
<1>5. CASE Tick \/ ImportCatalog BY <1>5, CountersKeep
<1>6. CASE UNCHANGED vars
    <2>1. slot' = slot /\ version' = version /\ turn' = turn /\ question' = question
          /\ time' = time /\ revision' = revision /\ faults' = faults
        BY <1>6 DEF vars
    <2> QED BY <2>1 DEF IInv, StoreInv, OriginsEnded, OneWorks, AskedByNobody, FactsHold,
                        TurnInv, QuestionInv, CounterInv, Works, Stands, ProducerKnown
<1> QED BY <1>1, <1>2, <1>3, <1>4, <1>5, <1>6 DEF Next

LEMMA AlwaysIInv == Spec => []IInv
<1>1. Init => IInv BY InitIInv, ContextAssumption
<1>2. IInv /\ [Next]_vars => IInv' BY NextIInv, ContextAssumption
<1> QED BY <1>1, <1>2, PTL DEF Spec

(* The variables have their types, and what a turn holds is of its session. *)
THEOREM ContextTypeCorrect == Spec => []TypeOK
<1>1. IInv => TypeOK
    <2> SUFFICES ASSUME IInv PROVE TypeOK OBVIOUS
    <2>1. TurnInv /\ QuestionInv /\ CounterInv /\ Rows(slot) BY DEF IInv, StoreInv
    <2>2. \A t \in Turns : \A h \in turn[t].facts : slot[h].session = turn[t].session
        BY <2>1, NotAcceptedTyped DEF TurnInv
    <2> QED BY <2>1, <2>2 DEF TypeOK, TurnInv, QuestionInv, CounterInv, Rows
<1> QED BY <1>1, AlwaysIInv, PTL

(* The generations of a slot key are distinct, the active one is the newest *)
(* and a replaced one names the next, however turns, removals, expiries and *)
(* several exports of one key in a turn follow each other.                 *)
THEOREM GenerationsAlwaysChain == Spec => []GenerationsChain
<1>1. IInv => GenerationsChain
    BY DEF IInv, StoreInv, Chain, GenerationsChain, Issued, IsIssued
<1> QED BY <1>1, AlwaysIInv, PTL

(* What the executor binds was active when its turn started.                *)
THEOREM UsedIsActive == Spec => []UsedWasActive
<1>1. IInv => UsedWasActive
    BY DEF IInv, FactsHold, Works, UsedWasActive, Resolved
<1> QED BY <1>1, AlwaysIInv, PTL

(* While a question about a parameter can be answered its choices are slots *)
(* of its session and stand, but for their time and the evidence of their   *)
(* origin.                                                                 *)
THEOREM ChoicesStand == Spec => []ClaimableChoicesStand
<1>1. IInv => ClaimableChoicesStand
    BY DEF IInv, QuestionInv, Offered, Stands, ClaimableChoicesStand
<1> QED BY <1>1, AlwaysIInv, PTL

(***************************************************************************)
(* The end of a slot                                                       *)
(***************************************************************************)
EndsForCause(h) ==
    IF slot[h].status # "active" THEN slot'[h] = slot[h]
    ELSE \/ slot'[h] = slot[h]
         \/ /\ slot'[h].status = "replaced"
            /\ LET next == slot'[slot'[h].replacedBy]
               IN  next.key = slot[h].key /\ next.session = slot[h].session
         \/ slot'[h].status = "invalidated" /\ turn' = turn /\ version' # version
         \/ slot'[h].status = "expired" /\ slot[h].expires <= time
         \/ slot'[h].status = "invalidated" /\ ~turn[slot[h].origin].evidence

LEMMA RefreshedForCause ==
    ASSUME IInv, NEW s \in Sessions, slot' = Refreshed(s), NEW h \in Handles
    PROVE  EndsForCause(h)
<1>1. PICK new : new = Refreshed(s) OBVIOUS
<1>2. slot'[h] = slot[h] \/ RefreshedSo(slot', h, s) BY RefreshCloses
<1>3. slot[h] \in Slots /\ version \in [Sessions -> Nat]
    BY DEF IInv, StoreInv, Rows, CounterInv
<1>4. CASE slot'[h] = slot[h] BY <1>4 DEF EndsForCause
<1>5. CASE RefreshedSo(slot', h, s)
    <2>1. PICK st \in {"expired", "invalidated"} :
            /\ Closed(slot', h, st)
            /\ IF st = "expired" THEN slot[h].expires <= time
               ELSE ~turn[slot[h].origin].evidence
        BY <1>5 DEF RefreshedSo
    <2>2. version[slot[h].session] \in Nat /\ st \in Statuses
        BY <1>3, <1>5 DEF RefreshedSo, Statuses
    <2>3. slot'[h].status = st /\ slot[h].status = "active"
        BY <2>1, <2>2, <1>3, CloseFields DEF Closed
    <2> QED BY <2>1, <2>3 DEF EndsForCause
<1> QED BY <1>2, <1>4, <1>5

LEMMA CommittedForCause ==
    ASSUME IInv, ContextAssumption, NEW t \in Turns, ExecutorEnds(t), NEW h \in Issued
    PROVE  EndsForCause(h)
<1>1. Works(t) BY DEF ExecutorEnds, Works
<1>2. PICK exports \in Exported :
          /\ Cardinality(Issued) + Len(exports) <= MaxHandles
          /\ slot' = Commits(t, exports, time + 1)
    BY DEF ExecutorEnds
<1>3. Keeps(slot, slot', t, turn[t].session) BY <1>1, <1>2, CommitsStep
<1>4. PICK s : s = turn[t].session OBVIOUS
<1>5. h \in Handles /\ IsIssued(slot, h) BY DEF Issued, IsIssued
<1>6. slot'[h] = slot[h] \/ Replaced(slot, slot', h, s) BY <1>3, <1>4, <1>5 DEF Keeps
<1>7. CASE slot'[h] = slot[h] BY <1>7 DEF EndsForCause
<1>8. CASE Replaced(slot, slot', h, s)
    <2>1. slot[h].status = "active" /\ slot[h].session = s BY <1>8 DEF Replaced
    <2>2. PICK r \in Handles :
            /\ slot'[h] = [Close(slot[h], "replaced", version[s]) EXCEPT !.replacedBy = r]
            /\ slot'[r].session = s /\ slot'[r].key = slot[h].key
        BY <1>8 DEF Replaced
    <2>3. slot[h] \in Slots BY <1>5 DEF IInv, StoreInv, Rows
    <2>4. slot'[h].status = "replaced" /\ slot'[h].replacedBy = r
        BY <2>2, <2>3 DEF Close, Slots
    <2> QED BY <2>1, <2>2, <2>4 DEF EndsForCause
<1> QED BY <1>6, <1>7, <1>8

LEMMA RemovedForCause ==
    ASSUME IInv, NEW s \in Sessions, NEW g \in Handles, RemoveContext(s, g), NEW h \in Handles
    PROVE  EndsForCause(h)
<1>1. /\ slot[g].status = "active"
      /\ slot' = [slot EXCEPT ![g] = Close(slot[g], "invalidated", version[s])]
      /\ version' = [version EXCEPT ![s] = version[s] + 1] /\ turn' = turn
    BY DEF RemoveContext
<1>2. slot \in [Handles -> Slots] /\ version \in [Sessions -> Nat]
    BY DEF IInv, StoreInv, Rows, CounterInv
<1>3. CASE h # g
    <2>1. slot'[h] = slot[h] BY <1>1, <1>2, <1>3
    <2> QED BY <2>1 DEF EndsForCause
<1>4. CASE h = g
    <2>1. slot'[h] = Close(slot[h], "invalidated", version[s]) BY <1>1, <1>2, <1>4
    <2>2. slot[h] \in Slots /\ version[s] \in Nat /\ "invalidated" \in Statuses
        BY <1>2 DEF Statuses
    <2>3. slot'[h].status = "invalidated" BY <2>1, <2>2, CloseFields
    <2>4. version' # version
        <3>1. version'[s] = version[s] + 1 BY <1>1, <1>2
        <3> QED BY <3>1, <2>2
    <2> QED BY <2>3, <2>4, <1>1, <1>4 DEF EndsForCause
<1> QED BY <1>3, <1>4

LEMMA StepsForCause ==
    ASSUME IInv, ContextAssumption, Next, NEW h \in Issued
    PROVE  EndsForCause(h)
<1>1. h \in Handles BY DEF Issued
<1>2. CASE slot' = slot BY <1>2 DEF EndsForCause
<1>3. CASE \E s \in Sessions : slot' = Refreshed(s) BY <1>1, <1>3, RefreshedForCause
<1>4. ASSUME NEW s \in Sessions, NEW t \in Turns, StartTurn(s, t)
      PROVE  EndsForCause(h)
    <2>1. slot' = slot \/ slot' = Refreshed(s)
        BY <1>4 DEF StartTurn, StartMessage, Cancel, ChooseCandidate, ChooseContext,
                    ChooseMeaning
    <2> QED BY <2>1, <1>2, <1>3
<1>5. ASSUME NEW t \in Turns, PlannerDecides(t) \/ TurnFails(t)
      PROVE  EndsForCause(h)
    BY <1>2, <1>5 DEF PlannerDecides, TurnFails
<1>6. ASSUME NEW t \in Turns, PlannerPlans(t)
      PROVE  EndsForCause(h)
    <2>1. Works(t) BY <1>6 DEF PlannerPlans, Works
    <2>2. turn[t].session \in Sessions BY <2>1, AloneAtWork
    <2>3. slot' = Refreshed(turn[t].session) BY <1>6 DEF PlannerPlans
    <2> QED BY <2>2, <2>3, <1>3
<1>7. ASSUME NEW t \in Turns, ExecutorEnds(t)
      PROVE  EndsForCause(h)
    BY <1>7, CommittedForCause
<1>8. ASSUME NEW s \in Sessions, NEW g \in Handles, RemoveContext(s, g)
      PROVE  EndsForCause(h)
    BY <1>1, <1>8, RemovedForCause
<1>9. ASSUME NEW s \in Sessions, ShowContext(s)
      PROVE  EndsForCause(h)
    BY <1>3, <1>9 DEF ShowContext
<1>10. CASE Tick \/ ImportCatalog BY <1>2, <1>10 DEF Tick, ImportCatalog
<1> QED BY <1>4, <1>5, <1>6, <1>7, <1>8, <1>9, <1>10 DEF Next

(* A slot stops being active for a newer one of its key, a removal, its time *)
(* or the lost evidence of its origin only, and nothing brings it back.     *)
THEOREM SlotsEndForCause == Spec => SlotEndsForCause
<1>1. IInv /\ [Next]_vars =>
        [\A h \in Issued :
          IF slot[h].status # "active" THEN slot'[h] = slot[h]
          ELSE \/ slot'[h] = slot[h]
               \/ /\ slot'[h].status = "replaced"
                  /\ LET next == slot'[slot'[h].replacedBy]
                     IN  next.key = slot[h].key /\ next.session = slot[h].session
               \/ slot'[h].status = "invalidated" /\ turn' = turn /\ version' # version
               \/ slot'[h].status = "expired" /\ slot[h].expires <= time
               \/ slot'[h].status = "invalidated" /\ ~turn[slot[h].origin].evidence]_vars
    BY StepsForCause, ContextAssumption DEF EndsForCause
<1> QED BY <1>1, AlwaysIInv, PTL DEF Spec, SlotEndsForCause

(***************************************************************************)
(* The next question                                                       *)
(***************************************************************************)
(* A preparation asks about no pinned parameter, and of its session only.   *)
LEMMA PrepareAsksOthers ==
    ASSUME question \in [Sessions -> Questions], NEW t, NEW held, NEW s \in Sessions,
           s = held.session, NEW slots, NEW plan \in Plans, NEW pinned,
           Prepare(t, held, slots, plan, pinned)
    PROVE  /\ \A z \in Sessions : z # s => question'[z] = question[z]
           /\ question'[s].kind = "context" => question'[s].target \notin pinned
<1>1. PICK refused :
        refused = {i \in DOMAIN plan.bind : Refuses(slots, held, plan, pinned, i)}
    OBVIOUS
<1>2. PICK open : open = {i \in DOMAIN plan.bind : Decides(held, plan, pinned, i)}
    OBVIOUS
<1>3. PICK first : first = Min(refused \cup open) OBVIOUS
<1>4. PICK choices : choices = Compatible(plan.shape[first], held.facts) OBVIOUS
<1>5. IF refused \cup open = {}
      THEN question' = [question EXCEPT ![s] = NoQuestion]
      ELSE IF first \in refused THEN question' = [question EXCEPT ![s] = NoQuestion]
      ELSE question' = [question EXCEPT ![s] =
                           IF choices = {} THEN NoQuestion
                           ELSE Ask("context", held, plan, first, choices)]
    BY <1>1, <1>2, <1>3, <1>4 DEF Prepare, Fail, Finish
<1>6. NoQuestion.kind = "none" BY DEF NoQuestion
<1>7. CASE question' = [question EXCEPT ![s] = NoQuestion]
    <2>1. question'[s] = NoQuestion /\ \A z \in Sessions : z # s => question'[z] = question[z]
        BY <1>7
    <2> QED BY <2>1, <1>6
<1>8. CASE /\ refused \cup open # {} /\ first \notin refused
           /\ question' = [question EXCEPT ![s] = Ask("context", held, plan, first, choices)]
    <2>1. /\ question'[s] = Ask("context", held, plan, first, choices)
          /\ \A z \in Sessions : z # s => question'[z] = question[z]
        BY <1>8
    <2>2. question'[s].target = first BY <2>1 DEF Ask
    <2>3. DOMAIN plan.bind \subseteq Nat BY DEF Plans
    <2>4. refused \cup open \subseteq Nat BY <2>3, <1>1, <1>2
    <2>5. first \in open BY <2>4, <1>3, <1>8, MinIsLeast
    <2>6. first \notin pinned BY <2>5, <1>2 DEF Decides
    <2> QED BY <2>1, <2>2, <2>6
<1> QED BY <1>5, <1>7, <1>8

MovesOn(s) ==
    question[s].kind = "context" /\ question'[s].kind = "context"
        /\ question'[s] # question[s]
    => question'[s].target # question[s].target

LEMMA StepsMoveOn ==
    ASSUME IInv, ContextAssumption, Next, NEW z \in Sessions
    PROVE  MovesOn(z)
<1>1. /\ question \in [Sessions -> Questions] /\ AskedByNobody
      /\ turn \in [Turns -> TurnStates] /\ revision \in Nat
    BY DEF IInv, QuestionInv, TurnInv, CounterInv
<1>2. NoQuestion.kind = "none" BY DEF NoQuestion
<1>3. ASSUME NEW s \in Sessions, NEW q, q.kind # "context",
             question' = [question EXCEPT ![s] = q]
      PROVE  MovesOn(z)
    <2>1. CASE z = s BY <2>1, <1>1, <1>3 DEF MovesOn
    <2>2. CASE z # s BY <2>2, <1>1, <1>3 DEF MovesOn
    <2> QED BY <2>1, <2>2
<1>4. CASE question' = question BY <1>4 DEF MovesOn
<1>5. ASSUME NEW s \in Sessions, NEW t \in Turns, NEW h \in Handles, ChooseContext(s, t, h)
      PROVE  MovesOn(z)
    <2>1. PICK asked \in Questions : asked = question[s] BY <1>1
    <2>2. PICK pinned \in 1 .. revision : pinned = question[s].revision
        BY <1>5, ClaimedRevision DEF ChooseContext
    <2>3. PICK held : held = Starting(s, pinned) OBVIOUS
    <2>4. s = held.session BY <2>3, StartingTyped
    <2>5. PICK slots : slots = Refreshed(s) OBVIOUS
    <2>6. Prepare(t, held, slots, WithChoice(asked, h), {asked.target})
        BY <1>5, <2>1, <2>2, <2>3, <2>5 DEF ChooseContext
    <2>7. WithChoice(asked, h) \in Plans BY ChoiceTyped
    <2>8. /\ \A y \in Sessions : y # s => question'[y] = question[y]
          /\ question'[s].kind = "context" => question'[s].target \notin {asked.target}
        BY <1>1, <2>4, <2>6, <2>7, PrepareAsksOthers
    <2>9. CASE z = s BY <2>1, <2>8, <2>9 DEF MovesOn
    <2>10. CASE z # s BY <2>8, <2>10 DEF MovesOn
    <2> QED BY <2>9, <2>10
<1>6. ASSUME NEW s \in Sessions, NEW t \in Turns, StartTurn(s, t)
      PROVE  MovesOn(z)
    <2>1. CASE \E h \in Handles : ChooseContext(s, t, h) BY <2>1, <1>5
    <2>2. CASE StartMessage(s, t) \/ ChooseCandidate(s, t)
               \/ \E h \in Handles \cup {0} : ChooseMeaning(s, t, h)
        <3>1. question' = [question EXCEPT ![s] = NoQuestion]
            BY <2>2 DEF StartMessage, ChooseCandidate, ChooseMeaning
        <3> QED BY <3>1, <1>2, <1>3
    <2>3. CASE Cancel(s, t)
        <3>1. PICK pinned \in 1 .. revision : pinned = question[s].revision
            BY <2>3, ClaimedRevision DEF Cancel
        <3>2. PICK held : held = Starting(s, pinned) OBVIOUS
        <3>3. s = held.session BY <3>2, StartingTyped
        <3>4. Fail(t, held) BY <2>3, <3>1, <3>2 DEF Cancel
        <3>5. question' = [question EXCEPT ![s] = NoQuestion] BY <3>3, <3>4 DEF Fail, Finish
        <3> QED BY <3>5, <1>2, <1>3
    <2> QED BY <2>1, <2>2, <2>3, <1>6 DEF StartTurn
<1>7. ASSUME NEW t \in Turns,
             PlannerDecides(t) \/ PlannerPlans(t) \/ ExecutorEnds(t) \/ TurnFails(t)
      PROVE  MovesOn(z)
    <2>1. Works(t) BY <1>7 DEF PlannerDecides, PlannerPlans, ExecutorEnds, TurnFails, Works
    <2>2. PICK held : held = turn[t] OBVIOUS
    <2>3. PICK s \in Sessions : s = held.session BY <2>1, <2>2, AloneAtWork
    <2>4. question[s].kind = "none" BY <2>1, <2>2, <2>3, <1>1 DEF AskedByNobody
    <2>5. \A y \in Sessions : y # s => question'[y] = question[y]
        <3>1. CASE PlannerPlans(t)
            <4>1. PICK shape \in Shapes : \E bind \in [DOMAIN shape -> Issued \cup {0}] :
                    \E chosen \in ChosenTargets(held, bind) :
                      IF held.fixed # {} /\ chosen = {} THEN Fail(t, held)
                      ELSE Prepare(t, held, Refreshed(s), [shape |-> shape, bind |-> bind], chosen)
                BY <3>1, <2>2, <2>3 DEF PlannerPlans
            <4>5. PICK bind \in [DOMAIN shape -> Issued \cup {0}] :
                    \E chosen \in ChosenTargets(held, bind) :
                      IF held.fixed # {} /\ chosen = {} THEN Fail(t, held)
                      ELSE Prepare(t, held, Refreshed(s), [shape |-> shape, bind |-> bind], chosen)
                BY <4>1
            <4>2. PICK chosen \in ChosenTargets(held, bind) :
                    \/ Fail(t, held)
                    \/ Prepare(t, held, Refreshed(s), [shape |-> shape, bind |-> bind], chosen)
                BY <4>5
            <4>3. CASE Fail(t, held) BY <4>3, <2>3, <1>1 DEF Fail, Finish
            <4>4. CASE Prepare(t, held, Refreshed(s), [shape |-> shape, bind |-> bind], chosen)
                BY <4>4, <2>3, <1>1 DEF Prepare, Fail, Finish
            <4> QED BY <4>2, <4>3, <4>4
        <3>2. CASE PlannerDecides(t) \/ TurnFails(t)
            BY <3>2, <2>2, <2>3, <1>1 DEF PlannerDecides, TurnFails, Fail, Finish
        <3>3. CASE ExecutorEnds(t)
            BY <3>3, <2>2, <2>3, <1>1 DEF ExecutorEnds, Finish
        <3> QED BY <3>1, <3>2, <3>3, <1>7
    <2> QED BY <2>4, <2>5 DEF MovesOn
<1>8. ASSUME NEW s \in Sessions, ShowContext(s) \/ \E h \in Handles : RemoveContext(s, h)
      PROVE  MovesOn(z)
    BY <1>4, <1>8 DEF ShowContext, RemoveContext
<1>9. CASE Tick \/ ImportCatalog BY <1>4, <1>9 DEF Tick, ImportCatalog
<1> QED BY <1>6, <1>7, <1>8, <1>9 DEF Next

(* The answer about a parameter is not met by the question about it again.  *)
THEOREM AnswersMoveOn == Spec => AnswerMovesOn
<1>1. IInv /\ [Next]_vars =>
        [\A s \in Sessions :
          question[s].kind = "context" /\ question'[s].kind = "context"
              /\ question'[s] # question[s]
          => question'[s].target # question[s].target]_vars
    BY StepsMoveOn, ContextAssumption DEF MovesOn
<1> QED BY <1>1, AlwaysIInv, PTL DEF Spec, AnswerMovesOn
=============================================================================
