----------------------------- MODULE MCCatalog -----------------------------
(* Skills and packages for TLC: `sales` depends on `item`, which depends on *)
(* `unit`.  A later item drops the dependency or turns it around, and one   *)
(* version of unit exists in two forms.                                    *)
EXTENDS Catalog, TLC

CONSTANTS web, cli

Document(id, version, digest, needs) ==
    [id |-> id, version |-> version, digest |-> digest, needs |-> needs,
     provides |-> {"fact"}, fits |-> digest # "alien"]
Need(id, versions) == [id |-> id, versions |-> versions, facts |-> {"fact"}]

unit1 == Document("unit", 1, "u1", {})
unit1other == Document("unit", 1, "u1x", {})
unit2 == [Document("unit", 2, "u2", {Need("sales", {1, 2})}) EXCEPT !.provides = {"fact", "more"}]
item1 == Document("item", 1, "i1", {Need("unit", {1, 2})})
item2 == Document("item", 2, "i2", {})
sales1 == Document("sales", 1, "s1", {Need("item", {1})})
sales2 == Document("sales", 2, "s2", {Need("item", {1, 2}), [Need("unit", {2}) EXCEPT !.facts = {"more"}]})
alien == Document("alien", 1, "alien", {})

Skills == {unit1, unit1other, unit2, item1, item2, sales1, sales2, alien}

Single(d) == [kind |-> "skill", skills |-> {d}, lock |-> {}]
Package(skills, lock) == [kind |-> "package", skills |-> skills, lock |-> Entries(lock)]

Inputs ==
    {Single(unit1), Single(unit1other), Single(item2), Single(alien),
     Package({unit1, item1, sales1}, {unit1, item1, sales1}),
     Package({item1}, {unit1, item1}),
     Package({item2, sales1}, {item2, sales1}),
     Package({item2}, {unit1, item2}),
     Package({unit2, sales2}, {unit2, item2, sales2})}

Symmetry == Permutations(Processes)
=============================================================================
