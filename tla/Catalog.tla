------------------------------ MODULE Catalog ------------------------------
(***************************************************************************)
(* The skill catalog (catalog.py: CatalogManager, CatalogService, with     *)
(* SQLiteStore.commit_catalog and SemanticValidator.package_issues):       *)
(* imports that create or replace skills, deletions with If-Match, exports, *)
(* and the snapshot each process keeps.                                    *)
(*                                                                         *)
(* The web process and the command line share the database.  Within a      *)
(* process a request runs to its end without an await, so it has at most   *)
(* one; between its reads and its transaction the other process may do     *)
(* anything.  A skill document is its identity, its digest, its             *)
(* dependencies, the fact types it provides and whether it fits the        *)
(* configuration profile.  A digest in an If-Match header is the set of     *)
(* catalog entries it is computed from.                                    *)
(***************************************************************************)
EXTENDS Naturals, Sequences, FiniteSets

CONSTANTS
    Processes,
    Documents,  \* skills that exist: [id, version, digest, needs, provides, fits]
    Imports,    \* import documents: [kind, skills, lock]
    MaxRevision \* bound: catalog revisions

VARIABLES
    stored,    \* skill_documents
    revisions, \* catalog_revisions with their catalog_revision_skills
    snapshot,  \* revision of CatalogManager._snapshot, by process
    request    \* the import or deletion a process is at

vars == <<stored, revisions, snapshot, request>>

Entry(skill) == [id |-> skill.id, version |-> skill.version, digest |-> skill.digest]
Entries(skills) == {Entry(d) : d \in skills}
Ids(skills) == {d.id : d \in skills}

SamePair(d, e) == d.id = e.id /\ d.version = e.version

CatalogAssumption ==
    /\ MaxRevision \in Nat \ {0}
    /\ \A d, e \in Documents : d.digest = e.digest => d = e
    /\ \A i \in Imports :
          /\ i.kind \in {"skill", "package"}
          /\ i.skills \subseteq Documents /\ i.skills # {}
          /\ IsFiniteSet(i.skills) /\ IsFiniteSet(i.lock)
          /\ i.kind = "skill" => i.lock = {} /\ \E d \in i.skills : i.skills = {d}
          /\ i.lock \subseteq Entries(Documents)

ASSUME CatalogAssumption

NoMatch == [kind |-> "none", of |-> {}]
SkillMatch(d) == [kind |-> "skill", of |-> {Entry(d)}]
CatalogMatch(entries) == [kind |-> "catalog", of |-> entries]

NoRequest ==
    [at |-> "idle", mode |-> "create", ids |-> {}, incoming |-> {}, lock |-> {},
     match |-> NoMatch, validated |-> 0, unchecked |-> {}, base |-> 0, result |-> {}]

(***************************************************************************)
(* Dependencies                                                            *)
(***************************************************************************)

(* _cycle_issues, _find_cycle: out of whatever nodes are taken, one leads   *)
(* to none of them.                                                        *)
Acyclic(nodes, edges) ==
    \A inner \in (SUBSET nodes) \ {{}} :
        \E n \in inner : \A k \in inner : <<n, k>> \notin edges

Satisfies(d, need) ==
    d.id = need.id /\ d.version \in need.versions /\ need.facts \subseteq d.provides

BadClosed(skills) ==
    \A d \in skills : \A need \in d.needs : need.id \in Ids(skills)

(* _validate_dependency_closure, of a catalog with one skill per id. *)
Closed(skills) ==
    /\ \A d \in skills : \A need \in d.needs : \E c \in skills : Satisfies(c, need)
    /\ Acyclic(Ids(skills), UNION {{<<d.id, need.id>> : need \in d.needs} : d \in skills})

BadDependencyClosure(active, roots) ==
    roots \cup {e \in active : \E d \in roots : e.id \in Ids(d.needs)}

(* _dependency_closure: the least part of the active skills that holds the  *)
(* roots and what its members depend on.                                   *)
DependencyClosure(active, roots) ==
    {d \in active :
        \A part \in SUBSET active :
            (roots \subseteq part /\ \A e \in part : \A c \in active :
                c.id \in Ids(e.needs) => c \in part) => d \in part}

(***************************************************************************)
(* Packages (package_issues)                                               *)
(***************************************************************************)

(* What the lock offers for a dependency, and the documents it stands for,  *)
(* embedded or active.                                                     *)
Locked(package, need) ==
    {e \in package.lock : e.id = need.id /\ e.version \in need.versions}

Resolved(package, available, need) ==
    {d \in package.skills \cup available : \E e \in Locked(package, need) : SamePair(d, e)}

(* The documents the package brings or depends on, at any distance. *)
Chosen(package, available) ==
    LET known == package.skills \cup available
    IN  {d \in known :
            \A part \in SUBSET known :
                (/\ package.skills \subseteq part
                 /\ \A e \in part : \A need \in e.needs :
                        Resolved(package, available, need) \subseteq part)
                => d \in part}

LaxLockHolds(package, available) ==
    \A d \in Chosen(package, available) : \A need \in d.needs :
        \E c \in Resolved(package, available, need) : Satisfies(c, need)

(* Each dependency has one lock entry and one document, and the lock holds  *)
(* nothing but the chosen documents, by their digests.                     *)
LockHolds(package, available) ==
    LET chosen == Chosen(package, available)
    IN  /\ \A d \in chosen : \A need \in d.needs :
              /\ Cardinality(Locked(package, need)) = 1
              /\ Cardinality(Resolved(package, available, need)) = 1
              /\ \A c \in Resolved(package, available, need) : Satisfies(c, need)
        /\ package.lock = Entries(chosen)
        /\ Acyclic(chosen, UNION {UNION {{<<d, c>> : c \in Resolved(package, available, need)} :
                                            need \in d.needs} : d \in chosen})

PackageAccepted(package, available) ==
    /\ \A d, e \in package.skills : d.id = e.id => d = e
    /\ \A d \in package.skills, e \in available : SamePair(d, e) => d.digest = e.digest
    /\ LockHolds(package, available)

(* validate_import up to the digests: the contract harness, the target of   *)
(* the package and the profile of each skill.                              *)
DocumentAccepted(document, available) ==
    /\ \A d \in document.skills : d.fits
    /\ document.kind = "package" => PackageAccepted(document, available)

(***************************************************************************)
(* The store                                                               *)
(***************************************************************************)
Newest == Len(revisions)

(* load_catalog_revision: the documents of its entries, joined by id and    *)
(* version.                                                                *)
Loaded(r) == {d \in stored : \E e \in revisions[r] : SamePair(d, e)}

(* known_digest *)
Conflicting(d) == \E known \in stored : SamePair(known, d) /\ known.digest # d.digest

Pinned == [p \in Processes |-> IF Newest > snapshot[p] THEN Newest ELSE snapshot[p]]

(* CatalogManager.pin reads the newest revision and moves the snapshot. *)
Pin(p) == snapshot' = [snapshot EXCEPT ![p] = Pinned[p]]

BlindCommitRefused(p) == \E d \in request[p].result : Conflicting(d)

TrustingCommitRefused(p) == request[p].base # Newest

(* commit_catalog: the revision has moved, or a document of another digest  *)
(* has the id and version.                                                 *)
CommitRefused(p) ==
    \/ request[p].base # Newest
    \/ \E d \in request[p].result : Conflicting(d)

(* INSERT OR IGNORE keeps the document of an id and version that is there. *)
Inserted(skills) ==
    stored \cup {d \in skills : \A known \in stored : ~SamePair(known, d)}

(***************************************************************************)
(* Requests                                                                *)
(***************************************************************************)
Refuse(p) ==
    /\ request' = [request EXCEPT ![p] = NoRequest]
    /\ UNCHANGED <<stored, revisions>>

(* What a client may send: no digest, that of a document it has, or, for     *)
(* several skills, that of a catalog it has read.                          *)
Matches(skills) ==
    {NoMatch} \cup
    IF Cardinality(skills) = 1
    THEN {SkillMatch(d) : d \in {e \in Documents : e.id \in Ids(skills)}}
    ELSE {CatalogMatch(revisions[r]) : r \in 1 .. Newest}

(* A creation comes without a digest, a replacement with any a client has. *)
Headers(skills) ==
    {[mode |-> "create", match |-> NoMatch]}
    \cup {[mode |-> "replace", match |-> match] : match \in Matches(skills)}

(* validate_import: the document is validated against the pinned catalog. *)
StartImport(p, document) ==
    /\ request[p].at = "idle"
    /\ DocumentAccepted(document, Loaded(Pinned[p]))
    /\ \E header \in Headers(document.skills) :
          request' = [request EXCEPT ![p] =
            [NoRequest EXCEPT !.at = "validating", !.mode = header.mode, !.match = header.match,
                              !.incoming = document.skills, !.ids = Ids(document.skills),
                              !.lock = document.lock, !.unchecked = document.skills,
                              !.validated = Pinned[p]]]
    /\ Pin(p)
    /\ UNCHANGED <<stored, revisions>>

(* known_digest is asked for one skill after the other. *)
CheckDigest(p, d) ==
    /\ request[p].at = "validating" /\ d \in request[p].unchecked
    /\ IF Conflicting(d) THEN Refuse(p)
       ELSE /\ request' = [request EXCEPT ![p].unchecked = @ \ {d}]
            /\ UNCHANGED <<stored, revisions>>
    /\ UNCHANGED snapshot

(* Create takes new ids only; replace takes active ids only, and the digest *)
(* of the skill, or of the whole catalog when there are several.           *)
ModeRefused(mode, incoming, match, active) ==
    IF mode = "create" THEN Ids(incoming) \cap Ids(active) # {}
    ELSE \/ ~(Ids(incoming) \subseteq Ids(active))
         \/ IF Cardinality(incoming) = 1
            THEN match \notin {SkillMatch(d) : d \in {e \in active : e.id \in Ids(incoming)}}
            ELSE match # CatalogMatch(Entries(active))

(* import_package after the validation: the catalog is pinned again, and    *)
(* what the import would leave has to be closed.                           *)
PrepareImport(p) ==
    LET held == request[p]
        active == Loaded(Pinned[p])
        result == {d \in active : d.id \notin held.ids} \cup held.incoming
    IN  /\ held.at = "validating" /\ held.unchecked = {}
        /\ Pin(p)
        /\ IF ModeRefused(held.mode, held.incoming, held.match, active) \/ ~Closed(result)
           THEN Refuse(p)
           ELSE /\ request' = [request EXCEPT ![p] =
                        [held EXCEPT !.at = "ready", !.base = Pinned[p], !.result = result]]
                /\ UNCHANGED <<stored, revisions>>

(* delete_skill: the exact digest, and no skill that depends on it. *)
StartDelete(p, d, match) ==
    LET active == Loaded(Pinned[p])
    IN  /\ request[p].at = "idle"
        /\ d \in active /\ match = SkillMatch(d)
        /\ \A e \in active : d.id \notin Ids(e.needs)
        /\ request' = [request EXCEPT ![p] =
                [NoRequest EXCEPT !.at = "ready", !.mode = "delete", !.ids = {d.id},
                                  !.match = match, !.validated = Pinned[p],
                                  !.base = Pinned[p], !.result = active \ {d}]]
        /\ Pin(p)
        /\ UNCHANGED <<stored, revisions>>

Commit(p) ==
    /\ request[p].at = "ready"
    /\ Newest < MaxRevision
    /\ IF CommitRefused(p) THEN Refuse(p)
       ELSE /\ stored' = Inserted(request[p].result)
            /\ revisions' = Append(revisions, Entries(request[p].result))
            /\ request' = [request EXCEPT ![p] =
                    [NoRequest EXCEPT !.at = "committed", !.base = Newest + 1]]
    /\ UNCHANGED snapshot

BadActivate(p) ==
    /\ request[p].at = "committed"
    /\ snapshot' = [snapshot EXCEPT ![p] = request[p].base + 1]
    /\ request' = [request EXCEPT ![p] = NoRequest]
    /\ UNCHANGED <<stored, revisions>>

(* CatalogManager.activate, and the answer.  Nothing else of the process ran *)
(* since the commit, so the snapshot is never ahead of it.                 *)
Activate(p) ==
    /\ request[p].at = "committed"
    /\ request[p].base >= snapshot[p]
    /\ snapshot' = [snapshot EXCEPT ![p] = request[p].base]
    /\ request' = [request EXCEPT ![p] = NoRequest]
    /\ UNCHANGED <<stored, revisions>>

(* A turn, a list, an export, and the refusals that follow a pin. *)
Read(p) ==
    /\ request[p].at = "idle"
    /\ Pin(p)
    /\ UNCHANGED <<stored, revisions, request>>

(* The process ends at any point and starts with the newest revision. *)
Restart(p) ==
    /\ snapshot' = [snapshot EXCEPT ![p] = Newest]
    /\ request' = [request EXCEPT ![p] = NoRequest]
    /\ UNCHANGED <<stored, revisions>>

(* SQLiteStore.initialize: the first revision is empty. *)
Init ==
    /\ stored = {}
    /\ revisions = <<{}>>
    /\ snapshot = [p \in Processes |-> 1]
    /\ request = [p \in Processes |-> NoRequest]

Import(p) ==
    \/ \E document \in Imports : StartImport(p, document)
    \/ \E d \in request[p].unchecked : CheckDigest(p, d)
    \/ PrepareImport(p)

Next ==
    \E p \in Processes :
        \/ Import(p)
        \/ \E d \in stored : \E match \in Matches({d}) : StartDelete(p, d, match)
        \/ Commit(p) \/ Activate(p) \/ Read(p) \/ Restart(p)

Spec == Init /\ [][Next]_vars

(***************************************************************************)
(* Export                                                                  *)
(***************************************************************************)

(* export_package: the closure of the chosen skills, locked as it is. *)
ExportPackage(active, ids) ==
    LET skills == DependencyClosure(active, {d \in active : d.id \in ids})
    IN  [kind |-> "package", skills |-> skills, lock |-> Entries(skills)]

(***************************************************************************)
(* Properties                                                              *)
(***************************************************************************)

(* The variables have their types; an id and version stands for one         *)
(* document, and a snapshot is a revision of the store.                    *)
TypeOK ==
    /\ stored \subseteq Documents
    /\ revisions \in Seq(SUBSET Entries(Documents)) /\ Newest \in 1 .. MaxRevision
    /\ \A p \in Processes :
          /\ snapshot[p] \in 1 .. Newest
          /\ request[p].at \in {"idle", "validating", "ready", "committed"}
          /\ request[p].incoming \subseteq Documents
          /\ request[p].result \subseteq Documents
          /\ request[p].base \in 0 .. Newest

(* Every revision, whatever imports and deletions of two processes led to   *)
(* it, has one skill per id, each of whose dependencies is there in a       *)
(* version it accepts and does not depend on it in turn.                   *)
RevisionsClosed ==
    \A r \in 1 .. Newest : LET skills == Loaded(r) IN \A d \in skills :
        /\ \A e \in skills : d.id = e.id => d = e
        /\ \A need \in d.needs : \E c \in skills :
              Satisfies(c, need) /\ d \notin DependencyClosure(skills, {c})

(* A revision loads as it was committed, for good: no later import puts     *)
(* another document under an id and version that some revision names.      *)
LoadsAsCommitted ==
    \A r \in 1 .. Newest : Entries(Loaded(r)) = revisions[r]

(* What the catalog exports, all of it or the closure of one skill, is      *)
(* accepted by an installation that has nothing.                           *)
ExportsImport ==
    LET active == Loaded(Newest)
    IN  \A ids \in {{d.id} : d \in active} \cup {Ids(active)} :
            LET package == ExportPackage(active, ids)
            IN  ids # {} => DocumentAccepted(package, {}) /\ Closed(package.skills)

(* A revision differs from the one before in the skills its request names:   *)
(* nothing else is lost or brought back, what is replaced or deleted is     *)
(* what the client named in If-Match, and what is created was not there.   *)
NothingLost ==
    [][revisions' # revisions =>
          \E p \in Processes :
             LET held == request[p]
                 before == revisions[Newest]
                 touched == {e \in before : e.id \in held.ids}
             IN  /\ held.at = "ready" /\ request'[p].at = "committed"
                 /\ {e \in revisions'[Newest + 1] : e.id \notin held.ids} = before \ touched
                 /\ CASE held.mode = "create" -> touched = {}
                      [] OTHER -> held.match.of \in {touched, before}]_vars

(* A package that nothing overtook between its validation and its commit    *)
(* finds every entry of its lock in the catalog it leaves.                 *)
LockIsActive ==
    [][\A p \in Processes :
          request[p].at = "ready" /\ request'[p].at = "committed"
              /\ request[p].validated = Newest
          => request[p].lock \subseteq revisions'[Newest + 1]]_vars
=============================================================================
