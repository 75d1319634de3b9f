--------------------------- MODULE MCContextSlots ---------------------------
(* Plans and exports for TLC: parameters that either of two slot keys can   *)
(* fill, one that a single key fills, and plans with one or two of them.   *)
EXTENDS ContextSlots, TLC

CONSTANTS s1, s2, t1, t2, t3, item, store

Param(keys) == [keys |-> keys, card |-> "one"]
Either == Param({item, store})
PlanShapes == {<<>>, <<Param({item})>>, <<Either, Either>>}

Selected(key, lifetime) == [key |-> key, card |-> "one", lifetime |-> lifetime]
Exports ==
    {<<>>, <<Selected(item, "until"), Selected(store, "session")>>,
     <<Selected(item, "turn")>>, <<Selected(item, "session"), Selected(item, "session")>>,
     <<[Selected(item, "session") EXCEPT !.card = "many"]>>}

Symmetry == Permutations(Turns) \cup Permutations(Sessions)
=============================================================================
