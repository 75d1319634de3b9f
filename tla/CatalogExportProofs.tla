------------------------- MODULE CatalogExportProofs -------------------------
(***************************************************************************)
(* For every set of processes, documents and imports: what the catalog     *)
(* exports is accepted by an empty installation, and a package that nothing *)
(* overtook finds its lock in the catalog it leaves.                       *)
(*                                                                         *)
(* Both are about the closure of dependencies: of the exported skills in    *)
(* the catalog, and of the documents a package chooses out of its own and  *)
(* the active ones.                                                        *)
(***************************************************************************)
EXTENDS CatalogProofs

(***************************************************************************)
(* Exports                                                                 *)
(***************************************************************************)

(* With one skill per id, the skills a closure holds need no other skill.   *)
LEMMA ClosureShut ==
    ASSUME NEW L, NEW roots, NEW e \in DependencyClosure(L, roots), NEW c \in L,
           c.id \in Ids(e.needs)
    PROVE  c \in DependencyClosure(L, roots)
BY DEF DependencyClosure

(* Part of a sound catalog that holds what its members need is sound. *)
LEMMA PartSound ==
    ASSUME NEW L, Sound(L), NEW P \in SUBSET L,
           \A e \in P : \A c \in L : c.id \in Ids(e.needs) => c \in P
    PROVE  Sound(P)
<1> DEFINE Edges(S) == UNION {{<<x.id, n.id>> : n \in x.needs} : x \in S}
<1>1. OnePerId(P) BY DEF Sound, OnePerId
<1>2. ASSUME NEW e \in P, NEW need \in e.needs
      PROVE  \E c \in P : Satisfies(c, need)
    <2>1. PICK c \in L : Satisfies(c, need) BY DEF Sound, Closed
    <2>2. c.id \in Ids(e.needs) BY <2>1 DEF Satisfies, Ids
    <2> QED BY <2>1, <2>2
<1>3. Acyclic(Ids(P), Edges(P))
    <2>1. Acyclic(Ids(L), Edges(L)) BY DEF Sound, Closed
    <2>2. Ids(P) \subseteq Ids(L) /\ Edges(P) \subseteq Edges(L) BY DEF Ids
    <2> QED BY <2>1, <2>2 DEF Acyclic
<1> QED BY <1>1, <1>2, <1>3 DEF Sound, Closed

(* Locked by its own entries, a sound set of skills offers exactly one      *)
(* entry and one document for each dependency: the one that satisfies it.  *)
LEMMA OwnLock ==
    ASSUME NEW P, Sound(P), NEW package, package.skills = P, package.lock = Entries(P),
           NEW d \in P, NEW need \in d.needs
    PROVE  \E c \in P : /\ Satisfies(c, need)
                        /\ Locked(package, need) = {Entry(c)}
                        /\ Resolved(package, {}, need) = {c}
<1>1. PICK c \in P : Satisfies(c, need) BY DEF Sound, Closed
<1>2. \A x \in P : x.id = c.id => x = c BY DEF Sound, OnePerId
<1>3. \A x : Entry(x).id = x.id /\ Entry(x).version = x.version BY DEF Entry
<1>4. Locked(package, need) = {Entry(c)}
    <2>1. ASSUME NEW e \in Locked(package, need) PROVE e = Entry(c)
        <3>1. PICK x \in P : e = Entry(x) BY DEF Locked, Entries
        <3>2. x.id = c.id BY <1>1, <1>3, <3>1 DEF Locked, Satisfies
        <3> QED BY <1>2, <3>1, <3>2
    <2>2. Entry(c) \in Locked(package, need)
        BY <1>1, <1>3 DEF Locked, Entries, Satisfies
    <2> QED BY <2>1, <2>2
<1>5. Resolved(package, {}, need) = {c}
    <2>1. Resolved(package, {}, need) = {x \in P : SamePair(x, Entry(c))}
        BY <1>4 DEF Resolved
    <2> QED BY <2>1, <1>2, <1>3 DEF SamePair
<1> QED BY <1>1, <1>4, <1>5

(* A sound set of skills, locked by its own entries, is a package an empty  *)
(* installation accepts.                                                   *)
LEMMA OwnLockHolds ==
    ASSUME NEW P, Sound(P), NEW package, package.skills = P, package.lock = Entries(P)
    PROVE  PackageAccepted(package, {})
<1> DEFINE chosen == Chosen(package, {})
           edges == UNION {UNION {{<<d, c>> : c \in Resolved(package, {}, need)} :
                                        need \in d.needs} : d \in chosen}
           named == UNION {{<<x.id, n.id>> : n \in x.needs} : x \in P}
<1>1. chosen = P BY DEF Chosen
<1>2. ASSUME NEW d \in chosen, NEW need \in d.needs
      PROVE  /\ Cardinality(Locked(package, need)) = 1
             /\ Cardinality(Resolved(package, {}, need)) = 1
             /\ \A c \in Resolved(package, {}, need) : Satisfies(c, need)
    <2>1. PICK c \in P : /\ Satisfies(c, need)
                         /\ Locked(package, need) = {Entry(c)}
                         /\ Resolved(package, {}, need) = {c}
        BY <1>1, OwnLock
    <2> QED BY <2>1, FS_Singleton
<1>3. Acyclic(chosen, edges)
    <2>1. SUFFICES ASSUME NEW inner \in (SUBSET chosen) \ {{}}
                   PROVE  \E n \in inner : \A k \in inner : <<n, k>> \notin edges
        BY DEF Acyclic
    <2>2. Ids(inner) \in (SUBSET Ids(P)) \ {{}} BY <1>1 DEF Ids
    <2>3. Acyclic(Ids(P), named) BY DEF Sound, Closed
    <2>4. PICK id \in Ids(inner) : \A k \in Ids(inner) : <<id, k>> \notin named
        BY <2>2, <2>3 DEF Acyclic
    <2>5. PICK n \in inner : n.id = id BY DEF Ids
    <2>6. ASSUME NEW k \in inner, <<n, k>> \in edges PROVE FALSE
        <3>0. PICK d \in P : \E need \in d.needs :
                \E c \in Resolved(package, {}, need) : <<n, k>> = <<d, c>>
            BY <1>1, <2>6
        <3>1. PICK need \in d.needs :
                \E c \in Resolved(package, {}, need) : <<n, k>> = <<d, c>>
            BY <3>0
        <3>2. PICK c \in P : Satisfies(c, need) /\ Resolved(package, {}, need) = {c}
            BY <3>1, OwnLock
        <3>3. n = d /\ k = c BY <3>1, <3>2
        <3>4. <<id, k.id>> \in named BY <2>5, <3>2, <3>3 DEF Satisfies
        <3>5. k.id \in Ids(inner) BY DEF Ids
        <3> QED BY <2>4, <3>4, <3>5
    <2> QED BY <2>6
<1>4. LockHolds(package, {}) BY <1>1, <1>2, <1>3 DEF LockHolds
<1> QED BY <1>4 DEF PackageAccepted, Sound, OnePerId

(* Whatever part of a sound catalog is exported is accepted and closed. *)
LEMMA ExportAccepted ==
    ASSUME NEW L, Sound(L), \A d \in L : d.fits, NEW ids
    PROVE  LET package == ExportPackage(L, ids)
           IN  DocumentAccepted(package, {}) /\ Closed(package.skills)
<1> DEFINE P == DependencyClosure(L, {d \in L : d.id \in ids})
           package == ExportPackage(L, ids)
<1>1. package.skills = P /\ package.lock = Entries(P) BY DEF ExportPackage
<1>2. P \in SUBSET L BY DEF DependencyClosure
<1>3. \A e \in P : \A c \in L : c.id \in Ids(e.needs) => c \in P BY ClosureShut
<1> HIDE DEF P, package
<1>4. Sound(P) BY <1>2, <1>3, PartSound
<1>5. PackageAccepted(package, {}) BY <1>1, <1>4, OwnLockHolds
<1>6. DocumentAccepted(package, {}) BY <1>1, <1>2, <1>5 DEF DocumentAccepted
<1> QED BY <1>1, <1>4, <1>6 DEF Sound, package

(***************************************************************************)
(* The documents a package chooses                                         *)
(***************************************************************************)

(* What is chosen includes the package's skills and what the chosen depend  *)
(* on.                                                                     *)
LEMMA ChosenShut ==
    ASSUME NEW package, NEW available
    PROVE  /\ package.skills \subseteq Chosen(package, available)
           /\ Chosen(package, available) \subseteq package.skills \cup available
           /\ \A e \in Chosen(package, available) : \A need \in e.needs :
                 Resolved(package, available, need) \subseteq Chosen(package, available)
BY DEF Chosen, Resolved

(* An accepted package chooses no document that its import would replace: a *)
(* dependency with an incoming and another active document of its id would  *)
(* have two lock entries.                                                  *)
LEMMA ChosenStays ==
    ASSUME NEW package \in Imports, NEW active \in SUBSET Documents,
           PackageAccepted(package, active), NEW result,
           result = {d \in active : d.id \notin Ids(package.skills)} \cup package.skills,
           Closed(result), OnePerId(result)
    PROVE  Chosen(package, active) \subseteq result
<1> DEFINE chosen == Chosen(package, active)
           kept == chosen \cap result
<1>1. package.skills \subseteq kept BY ChosenShut
<1>2. ASSUME NEW e \in kept, NEW need \in e.needs
      PROVE  Resolved(package, active, need) \subseteq kept
    <2>1. SUFFICES ASSUME NEW x \in Resolved(package, active, need), x \notin result
                   PROVE  FALSE
        BY ChosenShut
    <2>2. x \in active /\ x \in chosen BY <1>2, <2>1, ChosenShut DEF Resolved
    <2>3. PICK s \in package.skills : s.id = x.id BY <2>1, <2>2 DEF Ids
    <2>4. PICK c \in result : Satisfies(c, need) BY <1>2 DEF Closed
    <2>5. x.id = need.id /\ x.version \in need.versions
        BY <2>1 DEF Resolved, Locked, SamePair
    <2>6. c = s BY <2>3, <2>4, <2>5 DEF OnePerId, Satisfies
    <2>7. package.lock = Entries(chosen) BY DEF PackageAccepted, LockHolds
    <2>8. Entry(x) \in package.lock /\ Entry(s) \in package.lock
        BY <1>1, <2>2, <2>3, <2>7 DEF Entries
    <2>9. Entry(x) \in Locked(package, need) /\ Entry(s) \in Locked(package, need)
        BY <2>4, <2>5, <2>6, <2>8 DEF Locked, Entry, Satisfies
    <2>10. IsFiniteSet(Locked(package, need))
        <3>1. IsFiniteSet(package.lock) BY CatalogAssumption DEF CatalogAssumption
        <3>2. Locked(package, need) \subseteq package.lock BY DEF Locked
        <3> QED BY <3>1, <3>2, FS_Subset
    <2>11. Cardinality(Locked(package, need)) = 1
        BY <1>2 DEF PackageAccepted, LockHolds
    <2>12. Entry(x) = Entry(s) BY <2>9, <2>10, <2>11, FS_Singleton
    <2>13. s \in Documents /\ x \in Documents
        BY <2>2, <2>3, CatalogAssumption DEF CatalogAssumption
    <2>14. x = s BY <2>12, <2>13, CatalogAssumption DEF Entry, CatalogAssumption
    <2> QED BY <2>1, <2>3, <2>14
<1>3. ASSUME NEW d \in chosen PROVE d \in kept
    <2>1. kept \in SUBSET (package.skills \cup active) BY ChosenShut
    <2> QED BY <1>1, <1>2, <2>1 DEF Chosen
<1> QED BY <1>3

(***************************************************************************)
(* What a request keeps of the document it was made from                   *)
(***************************************************************************)

LoadedFrom(store, entries) == {d \in store : \E e \in entries : SamePair(d, e)}

(* An import that is checked is a document that was accepted against the    *)
(* revision it was validated on.  A prepared one leaves skills that fit the *)
(* profile, and, if nothing overtook it, what its lock names.              *)
Kept(held, store, revs) ==
    /\ held.at = "validating" =>
          /\ held.validated \in 1 .. Len(revs)
          /\ \E document \in Imports :
                /\ held.incoming = document.skills /\ held.lock = document.lock
                /\ DocumentAccepted(document, LoadedFrom(store, revs[held.validated]))
    /\ held.at = "ready" =>
          /\ \A d \in held.result : d.fits
          /\ held.validated = held.base => held.lock \subseteq Entries(held.result)

KeptInv ==
    /\ \A d \in stored : d.fits
    /\ \A p \in Processes : Kept(request[p], stored, revisions)

(* A revision loads the same documents after any step. *)
LEMMA LoadedStays ==
    ASSUME IInv, IInv', [Next]_vars, NEW r \in 1 .. Newest
    PROVE  r \in 1 .. Newest' /\ Loaded(r)' = Loaded(r)
<1>1. CASE UNCHANGED <<stored, revisions>> BY <1>1 DEF Loaded, Newest
<1>2. ASSUME NEW p \in Processes, Commit(p), ~CommitRefused(p)
      PROVE  r \in 1 .. Newest' /\ Loaded(r)' = Loaded(r)
    <2>1. stored' = Inserted(request[p].result) BY <1>2 DEF Commit
    <2>2. revisions' = Append(revisions, Entries(request[p].result)) BY <1>2 DEF Commit
    <2>3. /\ revisions \in Seq(SUBSET Entries(Documents))
          /\ Entries(request[p].result) \in SUBSET Entries(Documents)
        BY DEF IInv, TypeInv, RequestType, Entries
    <2>4. r \in 1 .. Newest' /\ revisions'[r] = revisions[r]
        BY <2>2, <2>3 DEF Newest
    <2>5. Loaded(r) \in SUBSET stored' BY <2>1 DEF Loaded, Inserted
    <2>6. \A d, e \in stored' : SamePair(d, e) => d = e
        BY DEF IInv, StoreInv, SamePair
    <2>7. {d \in stored' : \E e \in Entries(Loaded(r)) : SamePair(d, e)} = Loaded(r)
        BY <2>5, <2>6, EntriesLoad
    <2>8. Entries(Loaded(r)) = revisions[r] BY LoadsBack DEF IInv
    <2> QED BY <2>4, <2>7, <2>8 DEF Loaded, SamePair
<1> QED BY <1>1, <1>2 DEF Next, vars, Import, StartImport, CheckDigest, PrepareImport,
            StartDelete, Commit, Activate, Read, Restart, Refuse
(* One request changes; the others keep what they had. *)
LEMMA OneKept ==
    ASSUME IInv, IInv', [Next]_vars, KeptInv, NEW p \in Processes, NEW held,
           request' = [request EXCEPT ![p] = held], stored' = stored, revisions' = revisions,
           Kept(held, stored, revisions)
    PROVE  KeptInv'
<1>1. ASSUME NEW q \in Processes PROVE Kept(request'[q], stored', revisions')
    <2>1. request'[q] = IF q = p THEN held ELSE request[q] BY DEF IInv, TypeInv
    <2> QED BY <2>1 DEF KeptInv
<1> QED BY <1>1 DEF KeptInv

LEMMA IdleIsKept == \A store, revs : Kept(NoRequest, store, revs)
BY DEF Kept, NoRequest

LEMMA RefuseKept ==
    ASSUME IInv, IInv', [Next]_vars, KeptInv, NEW p \in Processes, Refuse(p)
    PROVE  KeptInv'
BY IdleIsKept, OneKept DEF Refuse

LEMMA StartKept ==
    ASSUME IInv, IInv', [Next]_vars, KeptInv, NEW p \in Processes,
           NEW document \in Imports, StartImport(p, document)
    PROVE  KeptInv'
<1>0. PICK header \in Headers(document.skills) :
        request' = [request EXCEPT ![p] =
            [NoRequest EXCEPT !.at = "validating", !.mode = header.mode, !.match = header.match,
                              !.incoming = document.skills, !.ids = Ids(document.skills),
                              !.lock = document.lock, !.unchecked = document.skills,
                              !.validated = Pinned[p]]]
    BY DEF StartImport
<1> DEFINE held == [NoRequest EXCEPT !.at = "validating", !.mode = header.mode,
                        !.match = header.match,
                        !.incoming = document.skills, !.ids = Ids(document.skills),
                        !.lock = document.lock, !.unchecked = document.skills,
                        !.validated = Pinned[p]]
<1>1. /\ held.at = "validating" /\ held.incoming = document.skills
      /\ held.lock = document.lock /\ held.validated = Pinned[p]
    BY DEF NoRequest
<1>2. request' = [request EXCEPT ![p] = held] /\ stored' = stored /\ revisions' = revisions
    BY <1>0 DEF StartImport
<1>3. Pinned[p] \in 1 .. Newest BY NewestLoads
<1>4. DocumentAccepted(document, Loaded(Pinned[p])) BY DEF StartImport
<1> HIDE DEF held
<1>5. Kept(held, stored, revisions)
    BY <1>1, <1>3, <1>4 DEF Kept, Loaded, LoadedFrom, Newest
<1> QED BY <1>2, <1>5, OneKept

LEMMA CheckKept ==
    ASSUME IInv, IInv', [Next]_vars, KeptInv, NEW p \in Processes, NEW d, CheckDigest(p, d)
    PROVE  KeptInv'
<1>1. CASE Conflicting(d) BY <1>1, RefuseKept DEF CheckDigest
<1>2. CASE ~Conflicting(d)
    <2> DEFINE held == [request[p] EXCEPT !.unchecked = @ \ {d}]
    <2>1. request[p] \in RequestType /\ request[p].at = "validating"
        BY DEF IInv, TypeInv, CheckDigest
    <2>2. /\ held.at = "validating" /\ held.incoming = request[p].incoming
          /\ held.lock = request[p].lock /\ held.validated = request[p].validated
        BY <2>1 DEF RequestType
    <2>3. request' = [request EXCEPT ![p] = held] /\ stored' = stored /\ revisions' = revisions
        BY <1>2 DEF CheckDigest
    <2> HIDE DEF held
    <2>4. Kept(request[p], stored, revisions) BY DEF KeptInv
    <2>5. Kept(held, stored, revisions) BY <2>1, <2>2, <2>4 DEF Kept
    <2> QED BY <2>3, <2>5, OneKept
<1> QED BY <1>1, <1>2

(* The catalog a package leaves has what its lock names, if it is prepared  *)
(* on the revision the package was validated on.                           *)
LEMMA PrepareKept ==
    ASSUME IInv, IInv', [Next]_vars, KeptInv, NEW p \in Processes, PrepareImport(p)
    PROVE  KeptInv'
<1> DEFINE held == request[p]
           active == Loaded(Pinned[p])
           result == {d \in active : d.id \notin held.ids} \cup held.incoming
           ready == [held EXCEPT !.at = "ready", !.base = Pinned[p], !.result = result]
           refused == ModeRefused(held.mode, held.incoming, held.match, active) \/ ~Closed(result)
<1>1. CASE refused
    <2>1. Refuse(p) BY <1>1 DEF PrepareImport
    <2> QED BY <2>1, RefuseKept
<1>2. CASE ~refused
    <2>1. held \in RequestType /\ held.at = "validating" BY DEF IInv, TypeInv, PrepareImport
    <2>2. PICK document \in Imports :
            /\ held.incoming = document.skills /\ held.lock = document.lock
            /\ DocumentAccepted(document, Loaded(held.validated))
        BY <2>1 DEF KeptInv, Kept, Loaded, LoadedFrom
    <2>3. OnePerId(held.incoming) /\ held.ids = Ids(held.incoming)
        BY <2>1 DEF IInv, RequestInv, Prepared
    <2>4. OnePerId(active) BY NewestLoads
    <2>5. OnePerId(result) /\ Closed(result) BY <1>2, <2>3, <2>4 DEF OnePerId, Ids
    <2>6. /\ ready.at = "ready" /\ ready.base = Pinned[p] /\ ready.result = result
          /\ ready.lock = held.lock /\ ready.validated = held.validated
        BY <2>1 DEF RequestType
    <2>7. request' = [request EXCEPT ![p] = ready] /\ stored' = stored /\ revisions' = revisions
        BY <1>2 DEF PrepareImport
    <2>8. \A d \in result : d.fits
        <3>1. \A d \in active : d.fits BY DEF KeptInv, Loaded
        <3>2. \A d \in held.incoming : d.fits BY <2>2 DEF DocumentAccepted
        <3> QED BY <3>1, <3>2
    <2>9. ASSUME held.validated = Pinned[p] PROVE held.lock \subseteq Entries(result)
        <3>1. CASE document.kind = "skill"
            BY <3>1, <2>2, CatalogAssumption DEF CatalogAssumption
        <3>2. CASE document.kind = "package"
            <4>1. PackageAccepted(document, active) BY <2>2, <2>9, <3>2 DEF DocumentAccepted
            <4>2. active \in SUBSET Documents BY DEF IInv, TypeInv, Loaded
            <4>3. result = {d \in active : d.id \notin Ids(document.skills)} \cup document.skills
                BY <2>2, <2>3
            <4> HIDE DEF result, active
            <4>4. Chosen(document, active) \subseteq result
                BY <2>5, <4>1, <4>2, <4>3, ChosenStays
            <4>5. document.lock = Entries(Chosen(document, active))
                BY <4>1 DEF PackageAccepted, LockHolds
            <4> QED BY <2>2, <4>4, <4>5 DEF Entries
        <3> QED BY <3>1, <3>2, CatalogAssumption DEF CatalogAssumption
    <2> HIDE DEF ready
    <2>10. Kept(ready, stored, revisions) BY <2>6, <2>8, <2>9 DEF Kept
    <2> QED BY <2>7, <2>10, OneKept
<1> QED BY <1>1, <1>2

LEMMA DeleteKept ==
    ASSUME IInv, IInv', [Next]_vars, KeptInv, NEW p \in Processes,
           NEW d, NEW match, StartDelete(p, d, match)
    PROVE  KeptInv'
<1> DEFINE active == Loaded(Pinned[p])
           ready == [NoRequest EXCEPT !.at = "ready", !.mode = "delete", !.ids = {d.id},
                                      !.match = match, !.validated = Pinned[p],
                                      !.base = Pinned[p], !.result = active \ {d}]
<1>1. ready.at = "ready" /\ ready.result = active \ {d} /\ ready.lock = {} BY DEF NoRequest
<1>2. request' = [request EXCEPT ![p] = ready] /\ stored' = stored /\ revisions' = revisions
    BY DEF StartDelete
<1>3. \A c \in active : c.fits BY DEF KeptInv, Loaded
<1> HIDE DEF ready
<1>4. Kept(ready, stored, revisions) BY <1>1, <1>3 DEF Kept
<1> QED BY <1>2, <1>4, OneKept

LEMMA CommitKept ==
    ASSUME IInv, IInv', [Next]_vars, KeptInv, NEW p \in Processes, Commit(p)
    PROVE  KeptInv'
<1> DEFINE done == [NoRequest EXCEPT !.at = "committed", !.base = Newest + 1]
<1>1. CASE CommitRefused(p) BY <1>1, RefuseKept DEF Commit
<1>2. CASE ~CommitRefused(p)
    <2>1. /\ request' = [request EXCEPT ![p] = done]
          /\ stored' = Inserted(request[p].result)
        BY <1>2 DEF Commit
    <2>2. \A d \in stored' : d.fits BY <2>1 DEF Inserted, KeptInv, Kept, Commit
    <2>3. done.at = "committed" BY DEF NoRequest
    <2> HIDE DEF done
    <2>4. ASSUME NEW q \in Processes PROVE Kept(request'[q], stored', revisions')
        <3>1. request'[q] = IF q = p THEN done ELSE request[q] BY <2>1 DEF IInv, TypeInv
        <3>2. CASE q = p BY <3>1, <3>2, <2>3 DEF Kept
        <3>3. CASE q # p
            <4>1. Kept(request[q], stored, revisions) /\ request'[q] = request[q]
                BY <3>1, <3>3 DEF KeptInv
            <4>2. CASE request[q].at = "validating"
                <5>1. PICK r : r = request[q].validated OBVIOUS
                <5>2. r \in 1 .. Newest BY <4>1, <4>2, <5>1 DEF Kept, Newest
                <5>3. r \in 1 .. Newest' /\ Loaded(r)' = Loaded(r) BY <5>2, LoadedStays
                <5>4. LoadedFrom(stored', revisions'[r]) = LoadedFrom(stored, revisions[r])
                    BY <5>3 DEF Loaded, LoadedFrom
                <5> QED BY <4>1, <4>2, <5>1, <5>3, <5>4 DEF Kept, Newest
            <4> QED BY <4>1, <4>2 DEF Kept
        <3> QED BY <3>2, <3>3
    <2> QED BY <2>2, <2>4 DEF KeptInv
<1> QED BY <1>1, <1>2

LEMMA NextKept == IInv /\ IInv' /\ KeptInv /\ [Next]_vars => KeptInv'
<1> SUFFICES ASSUME IInv, IInv', KeptInv, [Next]_vars PROVE KeptInv'
    OBVIOUS
<1>1. CASE UNCHANGED <<stored, revisions, request>>
    BY <1>1 DEF KeptInv
<1>2. ASSUME NEW p \in Processes, Import(p) PROVE KeptInv'
    BY <1>2, StartKept, CheckKept, PrepareKept DEF Import
<1>3. ASSUME NEW p \in Processes, NEW d \in stored, NEW match \in Matches({d}),
             StartDelete(p, d, match)
      PROVE  KeptInv'
    BY <1>3, DeleteKept
<1>4. ASSUME NEW p \in Processes, Activate(p) \/ Restart(p) PROVE KeptInv'
    <2>1. Refuse(p) BY <1>4 DEF Activate, Restart, Refuse
    <2> QED BY <2>1, RefuseKept
<1>5. ASSUME NEW p \in Processes, Commit(p) PROVE KeptInv' BY <1>5, CommitKept
<1>6. ASSUME NEW p \in Processes, Read(p) PROVE KeptInv' BY <1>6, <1>1 DEF Read
<1> QED BY <1>1, <1>2, <1>3, <1>4, <1>5, <1>6 DEF Next, vars

LEMMA KeptInvariant == Spec => []KeptInv
<1>1. Init => KeptInv BY IdleIsKept DEF Init, KeptInv
<1> QED BY <1>1, NextKept, Invariant, PTL DEF Spec

(***************************************************************************)
(* Theorems                                                                *)
(***************************************************************************)

(* Whatever was imported and deleted, the export of the catalog or of one   *)
(* skill with what it needs (export_package) passes the validation of an    *)
(* empty installation (package_issues) and leaves it a closed catalog.     *)
THEOREM ExportsAreImportable == Spec => []ExportsImport
<1>1. IInv /\ KeptInv => ExportsImport
    <2> SUFFICES ASSUME IInv, KeptInv PROVE ExportsImport
        OBVIOUS
    <2> DEFINE active == Loaded(Newest)
    <2>1. Newest \in 1 .. Newest BY NewestIsNat DEF IInv
    <2>2. Sound(active) BY <2>1 DEF IInv, StoreInv
    <2>3. \A d \in active : d.fits BY DEF KeptInv, Loaded
    <2> HIDE DEF active
    <2>4. \A ids : LET package == ExportPackage(active, ids)
                   IN  DocumentAccepted(package, {}) /\ Closed(package.skills)
        BY <2>2, <2>3, ExportAccepted
    <2> QED BY <2>4 DEF ExportsImport, active
<1> QED BY <1>1, Invariant, KeptInvariant, PTL

(* A package whose validation and commit are not overtaken by another       *)
(* process leaves a catalog with every skill its lock names: package_issues *)
(* rejects a lock with two documents of an id, so nothing the lock needs is *)
(* among what the import replaces.                                         *)
THEOREM LocksAreActive == Spec => LockIsActive
<1> DEFINE Lasts ==
        \A p \in Processes :
            request[p].at = "ready" /\ request'[p].at = "committed"
                /\ request[p].validated = Newest
            => request[p].lock \subseteq revisions'[Newest + 1]
<1>1. IInv /\ KeptInv /\ [Next]_vars => Lasts
    <2> SUFFICES ASSUME IInv, KeptInv, [Next]_vars, NEW p \in Processes,
                        request[p].at = "ready", request'[p].at = "committed",
                        request[p].validated = Newest
                 PROVE  request[p].lock \subseteq revisions'[Newest + 1]
        OBVIOUS
    <2> DEFINE held == request[p]
    <2>1. ASSUME NEW q \in Processes, NEW other, request' = [request EXCEPT ![q] = other],
                 other.at # "committed"
          PROVE  FALSE
        BY <2>1 DEF IInv, TypeInv
    <2>2. ASSUME NEW q \in Processes, Import(q) PROVE FALSE
        <3>1. ASSUME NEW document \in Imports, StartImport(q, document) PROVE FALSE
            <4>1. PICK other : request' = [request EXCEPT ![q] = other] /\ other.at = "validating"
                BY <3>1 DEF StartImport, NoRequest
            <4> QED BY <4>1, <2>1
        <3>2. ASSUME NEW d, CheckDigest(q, d) PROVE FALSE
            BY <3>2, <2>1 DEF CheckDigest, Refuse, NoRequest, IInv, TypeInv, RequestType
        <3>3. CASE PrepareImport(q)
            BY <3>3, <2>1 DEF PrepareImport, Refuse, NoRequest, IInv, TypeInv, RequestType
        <3> QED BY <2>2, <3>1, <3>2, <3>3 DEF Import
    <2>3. ASSUME NEW q \in Processes, NEW d, NEW match, StartDelete(q, d, match) PROVE FALSE
        BY <2>1, <2>3 DEF StartDelete, NoRequest
    <2>4. ASSUME NEW q \in Processes, Activate(q) \/ Restart(q) \/ Refuse(q) PROVE FALSE
        BY <2>1, <2>4 DEF Activate, Restart, Refuse, NoRequest
    <2>5. PICK q \in Processes : Commit(q) /\ ~CommitRefused(q)
        BY <2>2, <2>3, <2>4 DEF Next, vars, Commit, Read
    <2>6. q = p BY <2>5 DEF Commit, IInv, TypeInv
    <2>7. held.base = Newest BY <2>5, <2>6 DEF CommitRefused
    <2>8. revisions'[Newest + 1] = Entries(held.result)
        <3>1. revisions' = Append(revisions, Entries(held.result)) BY <2>5, <2>6 DEF Commit
        <3>2. Entries(held.result) \in SUBSET Entries(Documents)
            BY DEF IInv, TypeInv, RequestType, Entries
        <3> QED BY <3>1, <3>2 DEF IInv, TypeInv, Newest
    <2> QED BY <2>7, <2>8 DEF KeptInv, Kept
<1>2. [][Lasts]_vars <=> LockIsActive BY DEF LockIsActive
<1> QED BY <1>1, <1>2, Invariant, KeptInvariant, PTL DEF Spec
=============================================================================
