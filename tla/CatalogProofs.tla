---------------------------- MODULE CatalogProofs ----------------------------
(***************************************************************************)
(* For every set of processes, documents and imports: each revision of the *)
(* catalog is closed, has one skill per id and no cycle, loads as it was   *)
(* committed, and differs from the one before in what its request names.   *)
(*                                                                         *)
(* A commit trusts what its request prepared some steps earlier, so the    *)
(* invariant says of a prepared request what the commit relies on.         *)
(***************************************************************************)
EXTENDS Catalog, FiniteSetTheorems, TLAPS

RequestType ==
    [at: {"idle", "validating", "ready", "committed"},
     mode: {"create", "replace", "delete"}, ids: SUBSET Ids(Documents),
     incoming: SUBSET Documents, lock: SUBSET Entries(Documents),
     match: [kind: {"none", "skill", "catalog"}, of: SUBSET Entries(Documents)],
     validated: Nat, unchecked: SUBSET Documents, base: Nat, result: SUBSET Documents]

OnePerId(skills) == \A d, e \in skills : d.id = e.id => d = e

(* A catalog in the store: what a load gives is what was committed. *)
Sound(skills) == OnePerId(skills) /\ Closed(skills)

TypeInv ==
    /\ stored \subseteq Documents
    /\ revisions \in Seq(SUBSET Entries(Documents))
    /\ Newest \in 1 .. MaxRevision
    /\ snapshot \in [Processes -> 1 .. Newest]
    /\ request \in [Processes -> RequestType]
    /\ \A p \in Processes : request[p].base \in 0 .. Newest

StoreInv ==
    /\ \A d, e \in stored : SamePair(d, e) => d = e
    /\ \A r \in 1 .. Newest : revisions[r] \subseteq Entries(stored) /\ Sound(Loaded(r))

(* A validated document has one skill per id; a prepared result is sound. *)
Prepared(held) ==
    /\ held.at = "validating" =>
          OnePerId(held.incoming) /\ held.ids = Ids(held.incoming)
    /\ held.at = "ready" => Sound(held.result)

RequestInv == \A p \in Processes : Prepared(request[p])

IInv == TypeInv /\ StoreInv /\ RequestInv

(***************************************************************************)
(* Sets of documents                                                       *)
(***************************************************************************)

(* If d is reached from e, it is e or is reached from something e needs:    *)
(* the documents from which d is not reached are closed.                   *)
LEMMA ReachStep ==
    ASSUME NEW L, NEW d \in L, NEW e \in L, d \in DependencyClosure(L, {e}), d # e
    PROVE  \E c \in L : c.id \in Ids(e.needs) /\ d \in DependencyClosure(L, {c})
<1> DEFINE Shut(part) == \A x \in part : \A c \in L : c.id \in Ids(x.needs) => c \in part
           Away == {x \in L : \E part \in SUBSET L : x \in part /\ Shut(part) /\ d \notin part}
           Part == Away \cup {e}
<1>1. SUFFICES ASSUME \A c \in L : c.id \in Ids(e.needs) => d \notin DependencyClosure(L, {c})
               PROVE  FALSE
    OBVIOUS
<1>2. \A c \in L : c.id \in Ids(e.needs) => c \in Away
    BY <1>1 DEF DependencyClosure
<1>3. Shut(Away) OBVIOUS
<1>4. Shut(Part) BY <1>2, <1>3
<1>5. d \notin Part OBVIOUS
<1>6. Part \in SUBSET L /\ {e} \subseteq Part OBVIOUS
<1> QED BY <1>4, <1>5, <1>6 DEF DependencyClosure

(* Nothing a skill of a closed catalog needs depends on the skill. *)
LEMMA ClosedHasNoCycle ==
    ASSUME NEW L, Closed(L), NEW d \in L, NEW need \in d.needs,
           NEW c \in L, Satisfies(c, need)
    PROVE  d \notin DependencyClosure(L, {c})
<1> DEFINE edges == UNION {{<<x.id, n.id>> : n \in x.needs} : x \in L}
           inner == {x.id : x \in {y \in L : d \in DependencyClosure(L, {y})}}
<1>1. SUFFICES ASSUME d \in DependencyClosure(L, {c}) PROVE FALSE
    OBVIOUS
<1>2. Acyclic(Ids(L), edges) BY DEF Closed
<1>3. inner \in (SUBSET Ids(L)) \ {{}} BY <1>1 DEF Ids
<1>4. PICK n \in inner : \A k \in inner : <<n, k>> \notin edges
    BY <1>2, <1>3 DEF Acyclic
<1>5. PICK e \in L : e.id = n /\ d \in DependencyClosure(L, {e}) BY <1>4
<1>6. CASE e = d
    <2>1. c.id \in inner BY <1>1
    <2>2. <<n, c.id>> \in edges BY <1>5, <1>6 DEF Satisfies
    <2> QED BY <1>4, <2>1, <2>2
<1>7. CASE e # d
    <2>1. PICK x \in L : x.id \in Ids(e.needs) /\ d \in DependencyClosure(L, {x})
        BY <1>5, <1>7, ReachStep
    <2>2. <<n, x.id>> \in edges BY <1>5, <2>1 DEF Ids
    <2> QED BY <1>4, <2>1, <2>2
<1> QED BY <1>6, <1>7

(* A skill nobody needs may be taken out of a sound catalog. *)
LEMMA WithoutOne ==
    ASSUME NEW L, Sound(L), NEW d \in L, \A e \in L : d.id \notin Ids(e.needs)
    PROVE  Sound(L \ {d})
<1> DEFINE Edges(S) == UNION {{<<x.id, n.id>> : n \in x.needs} : x \in S}
<1>1. OnePerId(L \ {d}) BY DEF Sound, OnePerId
<1>2. ASSUME NEW e \in L \ {d}, NEW need \in e.needs
      PROVE  \E c \in L \ {d} : Satisfies(c, need)
    <2>1. PICK c \in L : Satisfies(c, need) BY <1>2 DEF Sound, Closed
    <2>2. need.id # d.id BY <1>2 DEF Ids
    <2> QED BY <2>1, <2>2 DEF Satisfies
<1>3. Acyclic(Ids(L \ {d}), Edges(L \ {d}))
    <2>1. Acyclic(Ids(L), Edges(L)) BY DEF Sound, Closed
    <2>2. Ids(L \ {d}) \subseteq Ids(L) BY DEF Ids
    <2>3. Edges(L \ {d}) \subseteq Edges(L) OBVIOUS
    <2> QED BY <2>1, <2>2, <2>3 DEF Acyclic
<1> QED BY <1>1, <1>2, <1>3 DEF Sound, Closed

(***************************************************************************)
(* The store                                                               *)
(***************************************************************************)

(* One document for an id and version: entries load as the documents they   *)
(* are the entries of.                                                     *)
LEMMA EntriesLoad ==
    ASSUME NEW S, \A d, e \in S : SamePair(d, e) => d = e, NEW D \in SUBSET S
    PROVE  {d \in S : \E e \in Entries(D) : SamePair(d, e)} = D
<1> DEFINE L == {d \in S : \E e \in Entries(D) : SamePair(d, e)}
<1>1. ASSUME NEW d \in L PROVE d \in D
    <2>1. PICK c \in D : SamePair(d, Entry(c)) BY DEF Entries
    <2>2. SamePair(d, c) BY <2>1 DEF SamePair, Entry
    <2> QED BY <2>2
<1>2. ASSUME NEW d \in D PROVE d \in L
    <2>1. SamePair(d, Entry(d)) BY DEF SamePair, Entry
    <2> QED BY <2>1 DEF Entries
<1> QED BY <1>1, <1>2

LEMMA LoadsBack ==
    ASSUME StoreInv, NEW r \in 1 .. Newest
    PROVE  Entries(Loaded(r)) = revisions[r]
<1>1. PICK D \in SUBSET stored : revisions[r] = Entries(D)
    <2> DEFINE D == {d \in stored : Entry(d) \in revisions[r]}
    <2>1. revisions[r] \subseteq Entries(stored) BY DEF StoreInv
    <2>2. revisions[r] = Entries(D) BY <2>1 DEF Entries
    <2> QED BY <2>2
<1>2. Loaded(r) = D BY <1>1, EntriesLoad DEF Loaded, StoreInv
<1> QED BY <1>1, <1>2

(* A pin gives the newest revision. *)
LEMMA PinnedIsNewest ==
    ASSUME TypeInv, NEW p \in Processes
    PROVE  /\ Pinned[p] = Newest
           /\ Pin(p) => snapshot' \in [Processes -> 1 .. Newest]
<1>1. snapshot[p] \in 1 .. Newest /\ Newest \in Nat BY DEF TypeInv, Newest
<1>2. Pinned[p] = Newest BY <1>1 DEF Pinned
<1> QED BY <1>1, <1>2 DEF Pin, TypeInv

(* What is unchanged in the store keeps the store's part. *)
LEMMA StoreUntouched ==
    ASSUME IInv, UNCHANGED <<stored, revisions>>,
           snapshot' \in [Processes -> 1 .. Newest],
           request' \in [Processes -> RequestType],
           \A p \in Processes : request'[p].base \in 0 .. Newest /\ Prepared(request'[p])
    PROVE  IInv'
<1>1. Newest' = Newest BY DEF Newest
<1>2. TypeInv' BY <1>1 DEF IInv, TypeInv
<1>3. \A r : Loaded(r)' = Loaded(r) BY DEF Loaded
<1>4. StoreInv' BY <1>1, <1>3 DEF IInv, StoreInv
<1>5. RequestInv' BY DEF RequestInv
<1> QED BY <1>2, <1>4, <1>5 DEF IInv

LEMMA NoRequestTyped ==
    NoRequest \in RequestType /\ NoRequest.base = 0 /\ Prepared(NoRequest)
BY DEF NoRequest, NoMatch, RequestType, Prepared

(* One request changes, the store does not. *)
LEMMA OneRequest ==
    ASSUME IInv, UNCHANGED <<stored, revisions>>,
           snapshot' \in [Processes -> 1 .. Newest],
           NEW p \in Processes, NEW held \in RequestType,
           request' = [request EXCEPT ![p] = held],
           held.base \in 0 .. Newest, Prepared(held)
    PROVE  IInv'
<1>1. request' \in [Processes -> RequestType] BY DEF IInv, TypeInv
<1>2. ASSUME NEW q \in Processes
      PROVE  request'[q].base \in 0 .. Newest /\ Prepared(request'[q])
    <2>1. CASE q = p BY <2>1 DEF IInv, TypeInv
    <2>2. CASE q # p BY <2>2 DEF IInv, TypeInv, RequestInv
    <2> QED BY <2>1, <2>2
<1> QED BY <1>1, <1>2, StoreUntouched

LEMMA NewestIsNat ==
    ASSUME TypeInv
    PROVE  Newest \in Nat /\ Newest >= 1 /\ 0 \in 0 .. Newest
BY DEF TypeInv, Newest

LEMMA RefuseKeeps ==
    ASSUME IInv, NEW p \in Processes, Refuse(p), snapshot' \in [Processes -> 1 .. Newest]
    PROVE  IInv'
<1>1. NoRequest \in RequestType /\ NoRequest.base \in 0 .. Newest /\ Prepared(NoRequest)
    BY NoRequestTyped, NewestIsNat DEF IInv
<1> QED BY <1>1, OneRequest DEF Refuse

(***************************************************************************)
(* Steps                                                                   *)
(***************************************************************************)

(* A validated document has one skill per id. *)
LEMMA AcceptedOnePerId ==
    ASSUME NEW document \in Imports, NEW available, DocumentAccepted(document, available)
    PROVE  OnePerId(document.skills)
<1>1. CASE document.kind = "package"
    BY <1>1 DEF DocumentAccepted, PackageAccepted, OnePerId
<1>2. CASE document.kind = "skill" BY <1>2, CatalogAssumption DEF CatalogAssumption, OnePerId
<1> QED BY <1>1, <1>2, CatalogAssumption DEF CatalogAssumption

LEMMA MatchTyped ==
    ASSUME TypeInv, NEW skills, NEW match \in Matches(skills)
    PROVE  match \in [kind: {"none", "skill", "catalog"}, of: SUBSET Entries(Documents)]
<1>1. CASE match = NoMatch BY <1>1 DEF NoMatch
<1>2. CASE match # NoMatch /\ Cardinality(skills) = 1
    BY <1>2 DEF Matches, SkillMatch, Entries
<1>3. CASE match # NoMatch /\ Cardinality(skills) # 1
    <2>1. PICK r \in 1 .. Newest : match = CatalogMatch(revisions[r]) BY <1>3 DEF Matches
    <2>2. revisions[r] \in SUBSET Entries(Documents) BY <2>1 DEF TypeInv, Newest
    <2> QED BY <2>1, <2>2 DEF CatalogMatch
<1> QED BY <1>1, <1>2, <1>3

LEMMA HeaderTyped ==
    ASSUME TypeInv, NEW document \in Imports, NEW header \in Headers(document.skills)
    PROVE  /\ header.mode \in {"create", "replace"}
           /\ header.match \in
                [kind: {"none", "skill", "catalog"}, of: SUBSET Entries(Documents)]
<1>1. CASE header = [mode |-> "create", match |-> NoMatch] BY <1>1 DEF NoMatch
<1>2. ASSUME NEW match \in Matches(document.skills),
             header = [mode |-> "replace", match |-> match]
      PROVE  /\ header.mode = "replace"
             /\ header.match \in
                  [kind: {"none", "skill", "catalog"}, of: SUBSET Entries(Documents)]
    BY <1>2, MatchTyped
<1> QED BY <1>1, <1>2 DEF Headers

LEMMA StartImportKeeps ==
    ASSUME IInv, NEW p \in Processes, NEW document \in Imports, StartImport(p, document)
    PROVE  IInv'
<1>0. PICK header \in Headers(document.skills) :
        request' = [request EXCEPT ![p] =
            [NoRequest EXCEPT !.at = "validating", !.mode = header.mode, !.match = header.match,
                              !.incoming = document.skills, !.ids = Ids(document.skills),
                              !.lock = document.lock, !.unchecked = document.skills,
                              !.validated = Pinned[p]]]
    BY DEF StartImport
<1> DEFINE held == [NoRequest EXCEPT !.at = "validating", !.mode = header.mode,
                        !.match = header.match,
                        !.incoming = document.skills, !.ids = Ids(document.skills),
                        !.lock = document.lock, !.unchecked = document.skills,
                        !.validated = Pinned[p]]
<1>1. document.skills \subseteq Documents /\ document.lock \subseteq Entries(Documents)
    BY CatalogAssumption DEF CatalogAssumption
<1>2. Ids(document.skills) \subseteq Ids(Documents) BY <1>1 DEF Ids
<1>3. Pinned[p] \in Nat BY PinnedIsNewest, NewestIsNat DEF IInv
<1>4. held \in RequestType
    BY <1>1, <1>2, <1>3, HeaderTyped, NoRequestTyped DEF IInv, RequestType, NoRequest
<1>5. held.base \in 0 .. Newest BY NewestIsNat DEF NoRequest, IInv
<1>6. OnePerId(document.skills) BY AcceptedOnePerId DEF StartImport
<1>7. Prepared(held) BY <1>6 DEF Prepared, NoRequest
<1>8. snapshot' \in [Processes -> 1 .. Newest] BY PinnedIsNewest DEF StartImport, IInv
<1>9. request' = [request EXCEPT ![p] = held] BY <1>0
<1>10. UNCHANGED <<stored, revisions>> BY DEF StartImport
<1> HIDE DEF held
<1> QED BY <1>4, <1>5, <1>7, <1>8, <1>9, <1>10, OneRequest

LEMMA CheckDigestKeeps ==
    ASSUME IInv, NEW p \in Processes, NEW d, CheckDigest(p, d)
    PROVE  IInv'
<1>1. snapshot' \in [Processes -> 1 .. Newest] BY DEF CheckDigest, IInv, TypeInv
<1>2. CASE Conflicting(d) BY <1>1, <1>2, RefuseKeeps DEF CheckDigest
<1>3. CASE ~Conflicting(d)
    <2> DEFINE held == [request[p] EXCEPT !.unchecked = @ \ {d}]
    <2>1. request[p] \in RequestType BY DEF IInv, TypeInv
    <2>2. held \in RequestType BY <2>1 DEF RequestType
    <2>3. held.base \in 0 .. Newest BY <2>1 DEF IInv, TypeInv, RequestType
    <2>4. Prepared(request[p]) BY DEF IInv, RequestInv
    <2>5. Prepared(held) BY <2>1, <2>4 DEF Prepared, RequestType
    <2>6. request' = [request EXCEPT ![p] = held] /\ UNCHANGED <<stored, revisions>>
        BY <1>3 DEF CheckDigest
    <2> HIDE DEF held
    <2> QED BY <1>1, <2>2, <2>3, <2>5, <2>6, OneRequest
<1> QED BY <1>2, <1>3

(* What an import would leave has one skill per id: the incoming ones, and   *)
(* of the active ones those with other ids.                                *)
LEMMA PrepareImportKeeps ==
    ASSUME IInv, NEW p \in Processes, PrepareImport(p)
    PROVE  IInv'
<1> DEFINE held == request[p]
           active == Loaded(Pinned[p])
           result == {d \in active : d.id \notin held.ids} \cup held.incoming
           ready == [held EXCEPT !.at = "ready", !.base = Pinned[p], !.result = result]
           refused == ModeRefused(held.mode, held.incoming, held.match, active) \/ ~Closed(result)
<1>1. snapshot' \in [Processes -> 1 .. Newest]
    BY PinnedIsNewest DEF PrepareImport, IInv
<1>2. CASE refused
    <2>1. Refuse(p) BY <1>2 DEF PrepareImport
    <2> QED BY <1>1, <2>1, RefuseKeeps
<1>3. CASE ~refused
    <2>1. held \in RequestType /\ held.at = "validating" BY DEF IInv, TypeInv, PrepareImport
    <2>2. Pinned[p] = Newest /\ Newest \in Nat /\ Newest >= 1
        BY PinnedIsNewest, NewestIsNat DEF IInv
    <2>3. OnePerId(active) /\ active \subseteq Documents
        BY <2>2 DEF IInv, StoreInv, TypeInv, Sound, Loaded
    <2>4. OnePerId(held.incoming) /\ held.ids = Ids(held.incoming)
        BY <2>1 DEF IInv, RequestInv, Prepared
    <2>5. OnePerId(result) BY <2>3, <2>4 DEF OnePerId, Ids
    <2>6. result \subseteq Documents BY <2>1, <2>3 DEF RequestType
    <2>7. ready \in RequestType BY <2>1, <2>2, <2>6 DEF RequestType
    <2>8. ready.base \in 0 .. Newest BY <2>1, <2>2 DEF RequestType
    <2>9. Prepared(ready) BY <2>1, <2>5, <1>3 DEF Prepared, Sound, RequestType
    <2>10. request' = [request EXCEPT ![p] = ready] /\ UNCHANGED <<stored, revisions>>
        BY <1>3 DEF PrepareImport
    <2> HIDE DEF ready
    <2> QED BY <1>1, <2>7, <2>8, <2>9, <2>10, OneRequest
<1> QED BY <1>2, <1>3

LEMMA StartDeleteKeeps ==
    ASSUME IInv, NEW p \in Processes, NEW d,
           NEW match \in [kind: {"none", "skill", "catalog"}, of: SUBSET Entries(Documents)],
           StartDelete(p, d, match)
    PROVE  IInv'
<1> DEFINE active == Loaded(Pinned[p])
           ready == [NoRequest EXCEPT !.at = "ready", !.mode = "delete", !.ids = {d.id},
                                      !.match = match, !.validated = Pinned[p],
                                      !.base = Pinned[p], !.result = active \ {d}]
<1>1. Pinned[p] = Newest /\ Newest \in Nat /\ Newest >= 1
    BY PinnedIsNewest, NewestIsNat DEF IInv
<1>2. Sound(active) /\ active \subseteq Documents
    BY <1>1 DEF IInv, StoreInv, TypeInv, Loaded
<1>3. d \in active /\ \A e \in active : d.id \notin Ids(e.needs) BY DEF StartDelete
<1>4. Sound(active \ {d}) BY <1>2, <1>3, WithoutOne
<1>5. {d.id} \subseteq Ids(Documents) BY <1>2, <1>3 DEF Ids
<1>6. ready \in RequestType BY <1>1, <1>2, <1>5, NoRequestTyped DEF RequestType, NoRequest
<1>7. ready.base \in 0 .. Newest BY <1>1 DEF NoRequest
<1>8. Prepared(ready) BY <1>4 DEF Prepared, NoRequest
<1>9. snapshot' \in [Processes -> 1 .. Newest] BY PinnedIsNewest DEF StartDelete, IInv
<1>10. request' = [request EXCEPT ![p] = ready] /\ UNCHANGED <<stored, revisions>>
    BY DEF StartDelete
<1> HIDE DEF ready
<1> QED BY <1>6, <1>7, <1>8, <1>9, <1>10, OneRequest

(* A commit adds no second document for an id and version: what it brings   *)
(* under one that is there is the same document.                           *)
LEMMA InsertedSound ==
    ASSUME IInv, NEW result \in SUBSET Documents, OnePerId(result),
           \A d \in result : ~Conflicting(d)
    PROVE  /\ stored \cup result = Inserted(result)
           /\ \A d, e \in Inserted(result) : SamePair(d, e) => d = e
<1>1. stored \subseteq Documents BY DEF IInv, TypeInv
<1>2. ASSUME NEW d \in result, NEW known \in stored, SamePair(known, d)
      PROVE  known = d
    <2>1. known.digest = d.digest BY <1>2 DEF Conflicting
    <2> QED BY <2>1, <1>1, CatalogAssumption DEF CatalogAssumption
<1>3. stored \cup result = Inserted(result) BY <1>2 DEF Inserted
<1>4. ASSUME NEW d \in stored \cup result, NEW e \in stored \cup result, SamePair(d, e)
      PROVE  d = e
    <2>1. SamePair(e, d) BY <1>4 DEF SamePair
    <2>2. CASE d \in stored /\ e \in stored BY <1>4, <2>2 DEF IInv, StoreInv
    <2>3. CASE d \in stored /\ e \in result BY <1>2, <1>4, <2>3
    <2>4. CASE d \in result /\ e \in stored BY <1>2, <2>1, <2>4
    <2>5. CASE d \in result /\ e \in result BY <1>4, <2>5 DEF OnePerId, SamePair
    <2> QED BY <2>2, <2>3, <2>4, <2>5
<1> QED BY <1>3, <1>4

LEMMA CommitKeeps ==
    ASSUME IInv, NEW p \in Processes, Commit(p)
    PROVE  IInv'
<1> DEFINE result == request[p].result
           done == [NoRequest EXCEPT !.at = "committed", !.base = Newest + 1]
<1>1. snapshot' = snapshot BY DEF Commit
<1>2. CASE CommitRefused(p)
    <2>1. Refuse(p) BY <1>2 DEF Commit
    <2>2. snapshot' \in [Processes -> 1 .. Newest] BY <1>1 DEF IInv, TypeInv
    <2> QED BY <2>1, <2>2, RefuseKeeps
<1>3. CASE ~CommitRefused(p)
    <2>1. /\ stored' = Inserted(result)
          /\ revisions' = Append(revisions, Entries(result))
          /\ request' = [request EXCEPT ![p] = done]
        BY <1>3 DEF Commit
    <2>2. request[p] \in RequestType /\ Prepared(request[p]) /\ request[p].at = "ready"
        BY DEF IInv, TypeInv, RequestInv, Commit
    <2>3. result \in SUBSET Documents /\ Sound(result)
        BY <2>2 DEF RequestType, Prepared
    <2>4. \A d \in result : ~Conflicting(d) BY <1>3 DEF CommitRefused
    <2>5. /\ stored' = stored \cup result
          /\ \A d, e \in stored' : SamePair(d, e) => d = e
        BY <2>1, <2>3, <2>4, InsertedSound DEF Sound
    <2>6. /\ revisions \in Seq(SUBSET Entries(Documents))
          /\ Entries(result) \in SUBSET Entries(Documents)
        BY <2>3 DEF IInv, TypeInv, Entries
    <2>7. /\ revisions' \in Seq(SUBSET Entries(Documents))
          /\ Newest \in Nat /\ Newest' = Newest + 1
          /\ \A r \in 1 .. Newest : revisions'[r] = revisions[r]
          /\ revisions'[Newest + 1] = Entries(result)
        BY <2>1, <2>6 DEF Newest
    <2>8. Newest >= 1 /\ Newest + 1 <= MaxRevision
        <3>1. Newest < MaxRevision BY DEF Commit
        <3> QED BY <3>1, <2>7, CatalogAssumption DEF IInv, TypeInv, CatalogAssumption
    <2>9. TypeInv'
        <3>1. stored' \subseteq Documents BY <2>3, <2>5 DEF IInv, TypeInv
        <3>2. Newest' \in 1 .. MaxRevision
            BY <2>7, <2>8, CatalogAssumption DEF CatalogAssumption
        <3>3. snapshot' \in [Processes -> 1 .. Newest']
            <4>1. snapshot \in [Processes -> 1 .. Newest] BY DEF IInv, TypeInv
            <4> QED BY <4>1, <1>1, <2>7
        <3>4. done \in RequestType
            <4>1. Newest + 1 \in Nat BY <2>7
            <4> QED BY <4>1, NoRequestTyped DEF RequestType
        <3>5. request' \in [Processes -> RequestType] BY <2>1, <3>4 DEF IInv, TypeInv
        <3>6. ASSUME NEW q \in Processes PROVE request'[q].base \in 0 .. Newest'
            <4>1. done.base = Newest + 1 BY DEF NoRequest
            <4>2. request[q].base \in 0 .. Newest BY DEF IInv, TypeInv
            <4>3. request'[q] = IF q = p THEN done ELSE request[q]
                BY <2>1 DEF IInv, TypeInv
            <4> QED BY <4>1, <4>2, <4>3, <2>7
        <3> QED BY <3>1, <3>2, <3>3, <3>5, <3>6, <2>7 DEF TypeInv
    <2>10. StoreInv'
        <3>1. ASSUME NEW r \in 1 .. Newest
              PROVE  revisions[r] \subseteq Entries(stored') /\ Sound(Loaded(r))
                     /\ {d \in stored' : \E e \in revisions[r] : SamePair(d, e)} = Loaded(r)
            <4>1. revisions[r] \subseteq Entries(stored) /\ Sound(Loaded(r))
                BY DEF IInv, StoreInv
            <4>2. Entries(stored) \subseteq Entries(stored') BY <2>5 DEF Entries
            <4>3. revisions[r] = Entries(Loaded(r)) BY LoadsBack DEF IInv
            <4>4. Loaded(r) \in SUBSET stored' BY <2>5 DEF Loaded
            <4>5. {d \in stored' : \E e \in Entries(Loaded(r)) : SamePair(d, e)} = Loaded(r)
                BY <2>5, <4>4, EntriesLoad
            <4> QED BY <4>1, <4>2, <4>3, <4>5
        <3>2. {d \in stored' : \E e \in Entries(result) : SamePair(d, e)} = result
            BY <2>5, EntriesLoad
        <3>3. Entries(result) \subseteq Entries(stored') BY <2>5 DEF Entries
        <3>4. ASSUME NEW r \in 1 .. Newest'
              PROVE  revisions'[r] \subseteq Entries(stored)' /\ Sound(Loaded(r))'
            <4>1. CASE r \in 1 .. Newest
                <5>1. revisions'[r] = revisions[r] BY <4>1, <2>7
                <5>2. Loaded(r)' = Loaded(r) BY <4>1, <5>1, <3>1 DEF Loaded, SamePair
                <5>3. Sound(Loaded(r))' BY <4>1, <5>2, <3>1 DEF Sound, OnePerId, Closed
                <5> QED BY <4>1, <5>1, <5>3, <3>1 DEF Entries
            <4>2. CASE r = Newest + 1
                <5>1. revisions'[r] = Entries(result) BY <4>2, <2>7
                <5>2. Loaded(r)' = result BY <5>1, <3>2 DEF Loaded, SamePair
                <5>3. Sound(Loaded(r))' BY <5>2, <2>3 DEF Sound, OnePerId, Closed
                <5> QED BY <5>1, <5>3, <3>3 DEF Entries
            <4> QED BY <4>1, <4>2, <2>7
        <3> QED BY <3>4, <2>5 DEF StoreInv, SamePair
    <2>11. RequestInv'
        <3>1. ASSUME NEW q \in Processes PROVE Prepared(request'[q])
            <4>1. Prepared(done) BY DEF Prepared, NoRequest
            <4>2. request'[q] = IF q = p THEN done ELSE request[q]
                BY <2>1 DEF IInv, TypeInv
            <4> HIDE DEF done
            <4> QED BY <4>1, <4>2 DEF IInv, RequestInv
        <3> QED BY <3>1 DEF RequestInv
    <2> QED BY <2>9, <2>10, <2>11 DEF IInv
<1> QED BY <1>2, <1>3

LEMMA ActivateKeeps ==
    ASSUME IInv, NEW p \in Processes, Activate(p)
    PROVE  IInv'
<1>1. request[p].base \in 1 .. Newest
    BY NewestIsNat DEF IInv, TypeInv, Activate
<1>2. snapshot' \in [Processes -> 1 .. Newest] BY <1>1 DEF IInv, TypeInv, Activate
<1>3. Refuse(p) BY DEF Activate, Refuse
<1> QED BY <1>2, <1>3, RefuseKeeps

LEMMA ReadKeeps ==
    ASSUME IInv, NEW p \in Processes, Read(p)
    PROVE  IInv'
<1>1. snapshot' \in [Processes -> 1 .. Newest] BY PinnedIsNewest DEF Read, IInv
<1>2. request' = request /\ UNCHANGED <<stored, revisions>> BY DEF Read
<1> QED BY <1>1, <1>2, StoreUntouched DEF IInv, TypeInv, RequestInv

LEMMA RestartKeeps ==
    ASSUME IInv, NEW p \in Processes, Restart(p)
    PROVE  IInv'
<1>1. snapshot' \in [Processes -> 1 .. Newest] BY NewestIsNat DEF Restart, IInv, TypeInv
<1>2. Refuse(p) BY DEF Restart, Refuse
<1> QED BY <1>1, <1>2, RefuseKeeps

(***************************************************************************)
(* The invariant                                                           *)
(***************************************************************************)
LEMMA InitHolds == Init => IInv
<1> SUFFICES ASSUME Init PROVE IInv
    OBVIOUS
<1>1. Newest = 1 /\ revisions[1] = {} BY DEF Init, Newest
<1>2. TypeInv
    <2>1. revisions \in Seq(SUBSET Entries(Documents)) BY DEF Init
    <2>2. 1 \in 1 .. MaxRevision BY CatalogAssumption DEF CatalogAssumption
    <2> QED BY <1>1, <2>1, <2>2, NoRequestTyped DEF Init, TypeInv
<1>3. StoreInv
    <2>1. Loaded(1) = {} BY <1>1 DEF Init, Loaded
    <2>2. Sound({}) BY DEF Sound, OnePerId, Closed, Acyclic, Ids
    <2> QED BY <1>1, <2>1, <2>2 DEF Init, StoreInv
<1>4. RequestInv BY NoRequestTyped DEF Init, RequestInv
<1> QED BY <1>2, <1>3, <1>4 DEF IInv

LEMMA NextKeeps == IInv /\ [Next]_vars => IInv'
<1> SUFFICES ASSUME IInv, [Next]_vars PROVE IInv'
    OBVIOUS
<1>1. CASE UNCHANGED vars
    BY <1>1, StoreUntouched DEF vars, IInv, TypeInv, RequestInv
<1>2. ASSUME NEW p \in Processes, Import(p) PROVE IInv'
    <2>1. ASSUME NEW document \in Imports, StartImport(p, document) PROVE IInv'
        BY <2>1, StartImportKeeps
    <2>2. ASSUME NEW d \in request[p].unchecked, CheckDigest(p, d) PROVE IInv'
        BY <2>2, CheckDigestKeeps
    <2>3. CASE PrepareImport(p) BY <2>3, PrepareImportKeeps
    <2> QED BY <1>2, <2>1, <2>2, <2>3 DEF Import
<1>3. ASSUME NEW p \in Processes, NEW d \in stored, NEW match \in Matches({d}),
             StartDelete(p, d, match)
      PROVE  IInv'
    <2>1. match \in [kind: {"none", "skill", "catalog"}, of: SUBSET Entries(Documents)]
        BY MatchTyped DEF IInv
    <2> QED BY <1>3, <2>1, StartDeleteKeeps
<1>4. ASSUME NEW p \in Processes, Commit(p) \/ Activate(p) \/ Read(p) \/ Restart(p)
      PROVE  IInv'
    BY <1>4, CommitKeeps, ActivateKeeps, ReadKeeps, RestartKeeps
<1> QED BY <1>1, <1>2, <1>3, <1>4 DEF Next

LEMMA Invariant == Spec => []IInv
BY InitHolds, NextKeeps, PTL DEF Spec

(***************************************************************************)
(* Theorems                                                                *)
(***************************************************************************)

(* The variables of the catalog have their types. *)
THEOREM CatalogTypeCorrect == Spec => []TypeOK
<1>1. IInv => TypeOK
    BY DEF IInv, TypeInv, TypeOK, RequestType
<1> QED BY <1>1, Invariant, PTL

(* Whatever two or more processes import and delete (commit_catalog and the *)
(* validation before it): every revision has one skill per id, everything   *)
(* it needs in a version it accepts, and no cycle.                         *)
THEOREM RevisionsStayClosed == Spec => []RevisionsClosed
<1>1. IInv => RevisionsClosed
    <2> SUFFICES ASSUME IInv, NEW r \in 1 .. Newest, NEW d \in Loaded(r)
                 PROVE  /\ \A e \in Loaded(r) : d.id = e.id => d = e
                        /\ \A need \in d.needs : \E c \in Loaded(r) :
                              Satisfies(c, need) /\ d \notin DependencyClosure(Loaded(r), {c})
        BY DEF RevisionsClosed
    <2>1. OnePerId(Loaded(r)) /\ Closed(Loaded(r)) BY DEF IInv, StoreInv, Sound
    <2>2. ASSUME NEW need \in d.needs
          PROVE  \E c \in Loaded(r) :
                     Satisfies(c, need) /\ d \notin DependencyClosure(Loaded(r), {c})
        <3>1. PICK c \in Loaded(r) : Satisfies(c, need) BY <2>1 DEF Closed
        <3> QED BY <2>1, <3>1, ClosedHasNoCycle
    <2> QED BY <2>1, <2>2 DEF OnePerId
<1> QED BY <1>1, Invariant, PTL

(* A revision always loads the documents it was committed with (INSERT OR   *)
(* IGNORE of skill_documents never meets another form of a version).       *)
THEOREM CommittedStaysLoaded == Spec => []LoadsAsCommitted
<1>1. IInv => LoadsAsCommitted BY LoadsBack DEF IInv, LoadsAsCommitted
<1> QED BY <1>1, Invariant, PTL

(***************************************************************************)
(* What a prepared request is about to change                              *)
(***************************************************************************)

(* Relative to the revision it was prepared on, a request changes only the  *)
(* skills it names, as its mode and its If-Match say.                      *)
Touches(before, held) ==
    LET touched == {e \in before : e.id \in held.ids}
    IN  /\ {e \in Entries(held.result) : e.id \notin held.ids} = before \ touched
        /\ held.mode = "create" => touched = {}
        /\ held.mode # "create" => held.match.of \in {touched, before}

Based(held, revs) ==
    /\ held.at = "validating" => IsFiniteSet(held.incoming)
    /\ held.at = "ready" => held.base \in 1 .. Len(revs) /\ Touches(revs[held.base], held)

BaseInv == \A p \in Processes : Based(request[p], revisions)

(* Revisions are only appended to. *)
LEMMA OldRevisionsStay ==
    ASSUME IInv, NEW p \in Processes, Commit(p), NEW held, Based(held, revisions)
    PROVE  Based(held, revisions')
<1>1. CASE CommitRefused(p) BY <1>1 DEF Commit, Refuse
<1>2. CASE ~CommitRefused(p)
    <2>1. revisions' = Append(revisions, Entries(request[p].result)) BY <1>2 DEF Commit
    <2>2. Entries(request[p].result) \in SUBSET Entries(Documents)
        BY DEF IInv, TypeInv, RequestType, Entries
    <2>3. revisions \in Seq(SUBSET Entries(Documents)) BY DEF IInv, TypeInv
    <2>4. \A r \in 1 .. Len(revisions) : r \in 1 .. Len(revisions') /\ revisions'[r] = revisions[r]
        BY <2>1, <2>2, <2>3
    <2> QED BY <2>4 DEF Based
<1> QED BY <1>1, <1>2

LEMMA IdleIsBased == \A revs : Based(NoRequest, revs)
BY DEF Based, NoRequest

(* One request changes; the others keep what they are based on. *)
LEMMA OneBased ==
    ASSUME IInv, BaseInv, NEW p \in Processes, NEW held,
           request' = [request EXCEPT ![p] = held], revisions' = revisions,
           Based(held, revisions)
    PROVE  BaseInv'
<1>1. ASSUME NEW q \in Processes PROVE Based(request'[q], revisions')
    <2>1. request'[q] = IF q = p THEN held ELSE request[q] BY DEF IInv, TypeInv
    <2> QED BY <2>1 DEF BaseInv
<1> QED BY <1>1 DEF BaseInv

LEMMA RefuseBased ==
    ASSUME IInv, BaseInv, NEW p \in Processes, Refuse(p)
    PROVE  BaseInv'
BY IdleIsBased, OneBased DEF Refuse

LEMMA NewestLoads ==
    ASSUME IInv, NEW p \in Processes
    PROVE  /\ Pinned[p] \in 1 .. Newest
           /\ Entries(Loaded(Pinned[p])) = revisions[Pinned[p]]
           /\ OnePerId(Loaded(Pinned[p]))
<1>1. Pinned[p] = Newest /\ Newest \in 1 .. Newest
    BY PinnedIsNewest, NewestIsNat DEF IInv
<1> QED BY <1>1, LoadsBack DEF IInv, StoreInv, Sound

(* The catalog an import prepares differs from the active one in its ids:   *)
(* created ones are new, a replaced one is the one of the If-Match, several *)
(* replaced ones come with the digest of the whole catalog.                *)
LEMMA PrepareBased ==
    ASSUME IInv, BaseInv, NEW p \in Processes, PrepareImport(p)
    PROVE  BaseInv'
<1> DEFINE held == request[p]
           active == Loaded(Pinned[p])
           before == revisions[Pinned[p]]
           result == {d \in active : d.id \notin held.ids} \cup held.incoming
           ready == [held EXCEPT !.at = "ready", !.base = Pinned[p], !.result = result]
           refused == ModeRefused(held.mode, held.incoming, held.match, active) \/ ~Closed(result)
           touched == {e \in before : e.id \in held.ids}
<1>1. CASE refused
    <2>1. Refuse(p) BY <1>1 DEF PrepareImport
    <2> QED BY <2>1, RefuseBased
<1>2. CASE ~refused
    <2>1. held \in RequestType /\ held.at = "validating" BY DEF IInv, TypeInv, PrepareImport
    <2>2. Pinned[p] \in 1 .. Newest /\ Entries(active) = before /\ OnePerId(active)
        BY NewestLoads
    <2>3. held.ids = Ids(held.incoming) BY <2>1 DEF IInv, RequestInv, Prepared
    <2>4. IsFiniteSet(held.incoming) BY <2>1 DEF BaseInv, Based
    <2>5. {e \in Entries(result) : e.id \notin held.ids} = before \ touched
        <3>1. \A d : Entry(d).id = d.id BY DEF Entry
        <3>2. {e \in Entries(result) : e.id \notin held.ids}
                = {Entry(d) : d \in {c \in active : c.id \notin held.ids}}
            BY <2>3, <3>1 DEF Entries, Ids
        <3>3. before \ touched = {Entry(d) : d \in {c \in active : c.id \notin held.ids}}
            BY <2>2, <3>1 DEF Entries
        <3> QED BY <3>2, <3>3
    <2>6. held.mode = "create" => touched = {}
        <3>1. held.mode = "create" => Ids(held.incoming) \cap Ids(active) = {}
            BY <1>2 DEF ModeRefused
        <3>2. \A e \in before : e.id \in Ids(active) BY <2>2 DEF Entries, Entry, Ids
        <3> QED BY <3>1, <3>2, <2>3
    <2>7. ASSUME held.mode # "create" PROVE held.match.of \in {touched, before}
        <3>1. CASE Cardinality(held.incoming) = 1
            <4>1. PICK x : held.incoming = {x} BY <3>1, <2>4, FS_Singleton
            <4>2. PICK d \in active : d.id \in Ids(held.incoming) /\ held.match = SkillMatch(d)
                BY <1>2, <2>7, <3>1 DEF ModeRefused
            <4>3. held.ids = {d.id} BY <2>3, <4>1, <4>2 DEF Ids
            <4>4. touched = {Entry(d)}
                BY <2>2, <4>2, <4>3 DEF Entries, Entry, OnePerId
            <4> QED BY <4>2, <4>4 DEF SkillMatch
        <3>2. CASE Cardinality(held.incoming) # 1
            <4>1. held.match = CatalogMatch(Entries(active))
                BY <1>2, <2>7, <3>2 DEF ModeRefused
            <4> QED BY <4>1, <2>2 DEF CatalogMatch
        <3> QED BY <3>1, <3>2
    <2>8. /\ ready.at = "ready" /\ ready.base = Pinned[p] /\ ready.result = result
          /\ ready.ids = held.ids /\ ready.mode = held.mode /\ ready.match = held.match
        BY <2>1 DEF RequestType
    <2>9. request' = [request EXCEPT ![p] = ready] /\ revisions' = revisions
        BY <1>2 DEF PrepareImport
    <2> HIDE DEF ready
    <2>10. Based(ready, revisions)
        BY <2>2, <2>5, <2>6, <2>7, <2>8 DEF Based, Touches, Newest
    <2> QED BY <2>9, <2>10, OneBased
<1> QED BY <1>1, <1>2

(* A deletion takes the one skill of its If-Match. *)
LEMMA DeleteBased ==
    ASSUME IInv, BaseInv, NEW p \in Processes, NEW d, NEW match, StartDelete(p, d, match)
    PROVE  BaseInv'
<1> DEFINE active == Loaded(Pinned[p])
           before == revisions[Pinned[p]]
           ready == [NoRequest EXCEPT !.at = "ready", !.mode = "delete", !.ids = {d.id},
                                      !.match = match, !.validated = Pinned[p],
                                      !.base = Pinned[p], !.result = active \ {d}]
           touched == {e \in before : e.id \in {d.id}}
<1>1. Pinned[p] \in 1 .. Newest /\ Entries(active) = before /\ OnePerId(active)
    BY NewestLoads
<1>2. d \in active /\ match = SkillMatch(d) BY DEF StartDelete
<1>3. touched = {Entry(d)} BY <1>1, <1>2 DEF Entries, Entry, OnePerId
<1>4. {e \in Entries(active \ {d}) : e.id \notin {d.id}} = before \ touched
    <2>1. \A c : Entry(c).id = c.id BY DEF Entry
    <2>2. {e \in Entries(active \ {d}) : e.id \notin {d.id}}
            = {Entry(c) : c \in {x \in active : x.id # d.id}}
        BY <2>1 DEF Entries
    <2>3. before \ touched = {Entry(c) : c \in {x \in active : x.id # d.id}}
        BY <1>1, <2>1 DEF Entries
    <2> QED BY <2>2, <2>3
<1>5. /\ ready.at = "ready" /\ ready.base = Pinned[p] /\ ready.result = active \ {d}
      /\ ready.ids = {d.id} /\ ready.mode = "delete" /\ ready.match = match
    BY DEF NoRequest
<1>6. request' = [request EXCEPT ![p] = ready] /\ revisions' = revisions
    BY DEF StartDelete
<1> HIDE DEF ready
<1>7. match.of = touched BY <1>2, <1>3 DEF SkillMatch
<1>8. ready.match.of = {e \in before : e.id \in ready.ids} BY <1>5, <1>7
<1>9. {e \in Entries(ready.result) : e.id \notin ready.ids}
        = before \ {e \in before : e.id \in ready.ids}
    BY <1>4, <1>5
<1>10. Based(ready, revisions)
    BY <1>1, <1>5, <1>8, <1>9 DEF Based, Touches, Newest
<1> QED BY <1>6, <1>10, OneBased

LEMMA StartBased ==
    ASSUME IInv, BaseInv, NEW p \in Processes, NEW document \in Imports, StartImport(p, document)
    PROVE  BaseInv'
<1>0. PICK header \in Headers(document.skills) :
        request' = [request EXCEPT ![p] =
            [NoRequest EXCEPT !.at = "validating", !.mode = header.mode, !.match = header.match,
                              !.incoming = document.skills, !.ids = Ids(document.skills),
                              !.lock = document.lock, !.unchecked = document.skills,
                              !.validated = Pinned[p]]]
    BY DEF StartImport
<1> DEFINE held == [NoRequest EXCEPT !.at = "validating", !.mode = header.mode,
                        !.match = header.match,
                        !.incoming = document.skills, !.ids = Ids(document.skills),
                        !.lock = document.lock, !.unchecked = document.skills,
                        !.validated = Pinned[p]]
<1>1. held.at = "validating" /\ held.incoming = document.skills BY DEF NoRequest
<1>2. IsFiniteSet(document.skills) BY CatalogAssumption DEF CatalogAssumption
<1>3. request' = [request EXCEPT ![p] = held] /\ revisions' = revisions BY <1>0 DEF StartImport
<1> HIDE DEF held
<1>4. Based(held, revisions) BY <1>1, <1>2 DEF Based
<1> QED BY <1>3, <1>4, OneBased

LEMMA CheckBased ==
    ASSUME IInv, BaseInv, NEW p \in Processes, NEW d, CheckDigest(p, d)
    PROVE  BaseInv'
<1>1. CASE Conflicting(d) BY <1>1, RefuseBased DEF CheckDigest
<1>2. CASE ~Conflicting(d)
    <2> DEFINE held == [request[p] EXCEPT !.unchecked = @ \ {d}]
    <2>1. request[p] \in RequestType /\ request[p].at = "validating"
        BY DEF IInv, TypeInv, CheckDigest
    <2>2. held.at = "validating" /\ held.incoming = request[p].incoming
        BY <2>1 DEF RequestType
    <2>3. request' = [request EXCEPT ![p] = held] /\ revisions' = revisions
        BY <1>2 DEF CheckDigest
    <2> HIDE DEF held
    <2>4. Based(held, revisions) BY <2>1, <2>2 DEF BaseInv, Based
    <2> QED BY <2>3, <2>4, OneBased
<1> QED BY <1>1, <1>2

LEMMA CommitBased ==
    ASSUME IInv, BaseInv, NEW p \in Processes, Commit(p)
    PROVE  BaseInv'
<1> DEFINE done == [NoRequest EXCEPT !.at = "committed", !.base = Newest + 1]
<1>1. CASE CommitRefused(p) BY <1>1, RefuseBased DEF Commit
<1>2. CASE ~CommitRefused(p)
    <2>1. request' = [request EXCEPT ![p] = done] BY <1>2 DEF Commit
    <2>2. done.at = "committed" BY DEF NoRequest
    <2> HIDE DEF done
    <2>3. ASSUME NEW q \in Processes PROVE Based(request'[q], revisions')
        <3>1. request'[q] = IF q = p THEN done ELSE request[q]
            BY <2>1 DEF IInv, TypeInv
        <3>2. Based(done, revisions') BY <2>2 DEF Based
        <3>3. Based(request[q], revisions') BY OldRevisionsStay DEF BaseInv
        <3> QED BY <3>1, <3>2, <3>3
    <2> QED BY <2>3 DEF BaseInv
<1> QED BY <1>1, <1>2

LEMMA NextBased == IInv /\ BaseInv /\ [Next]_vars => BaseInv'
<1> SUFFICES ASSUME IInv, BaseInv, [Next]_vars PROVE BaseInv'
    OBVIOUS
<1>1. CASE UNCHANGED <<request, revisions>> BY <1>1 DEF BaseInv
<1>2. ASSUME NEW p \in Processes, Import(p) PROVE BaseInv'
    BY <1>2, StartBased, CheckBased, PrepareBased DEF Import
<1>3. ASSUME NEW p \in Processes, NEW d \in stored, NEW match \in Matches({d}),
             StartDelete(p, d, match)
      PROVE  BaseInv'
    BY <1>3, DeleteBased
<1>4. ASSUME NEW p \in Processes, Activate(p) \/ Restart(p) PROVE BaseInv'
    <2>1. Refuse(p) BY <1>4 DEF Activate, Restart, Refuse
    <2> QED BY <2>1, RefuseBased
<1>5. ASSUME NEW p \in Processes, Commit(p) PROVE BaseInv' BY <1>5, CommitBased
<1>6. ASSUME NEW p \in Processes, Read(p) PROVE BaseInv' BY <1>6, <1>1 DEF Read
<1> QED BY <1>1, <1>2, <1>3, <1>4, <1>5, <1>6 DEF Next, vars

LEMMA BaseInvariant == Spec => []BaseInv
<1>1. Init => BaseInv BY IdleIsBased DEF Init, BaseInv
<1> QED BY <1>1, NextBased, Invariant, PTL DEF Spec

(* A commit writes what its request prepared on the revision that is still  *)
(* the newest (commit_catalog compares the two): no change of another       *)
(* process is lost, and only what the client named changes.                *)
THEOREM CommitsLoseNothing == Spec => NothingLost
<1> DEFINE Changed ==
        revisions' # revisions =>
          \E p \in Processes :
             LET held == request[p]
                 before == revisions[Newest]
                 touched == {e \in before : e.id \in held.ids}
             IN  /\ held.at = "ready" /\ request'[p].at = "committed"
                 /\ {e \in revisions'[Newest + 1] : e.id \notin held.ids} = before \ touched
                 /\ CASE held.mode = "create" -> touched = {}
                      [] OTHER -> held.match.of \in {touched, before}
<1>1. IInv /\ BaseInv /\ [Next]_vars => Changed
    <2> SUFFICES ASSUME IInv, BaseInv, [Next]_vars, revisions' # revisions PROVE Changed
        OBVIOUS
    <2>1. PICK p \in Processes : Commit(p) /\ ~CommitRefused(p)
        BY DEF Next, vars, Import, StartImport, CheckDigest, PrepareImport, StartDelete,
               Commit, Activate, Read, Restart, Refuse
    <2> DEFINE held == request[p]
               done == [NoRequest EXCEPT !.at = "committed", !.base = Newest + 1]
    <2>2. held.at = "ready" /\ held.base = Newest BY <2>1 DEF Commit, CommitRefused
    <2>3. request'[p].at = "committed"
        <3>1. request' = [request EXCEPT ![p] = done] BY <2>1 DEF Commit
        <3>2. done.at = "committed" BY DEF NoRequest
        <3> HIDE DEF done
        <3> QED BY <3>1, <3>2 DEF IInv, TypeInv
    <2>4. revisions'[Newest + 1] = Entries(held.result)
        <3>1. revisions' = Append(revisions, Entries(held.result)) BY <2>1 DEF Commit
        <3>2. Entries(held.result) \in SUBSET Entries(Documents)
            BY DEF IInv, TypeInv, RequestType, Entries
        <3> QED BY <3>1, <3>2 DEF IInv, TypeInv, Newest
    <2>5. Touches(revisions[Newest], held) BY <2>2 DEF BaseInv, Based
    <2> QED BY <2>2, <2>3, <2>4, <2>5 DEF Touches
<1>2. [][Changed]_vars <=> NothingLost BY DEF NothingLost
<1> QED BY <1>1, <1>2, Invariant, BaseInvariant, PTL DEF Spec
=============================================================================
