\* Two processes, nine import documents, four revisions.
CONSTANTS
    web = web
    cli = cli
    Processes = {web, cli}
    Documents <- Skills
    Imports <- Inputs
    MaxRevision = 4
SPECIFICATION Spec
SYMMETRY Symmetry
INVARIANTS
    TypeOK
    RevisionsClosed
    LoadsAsCommitted
    ExportsImport
PROPERTIES
    NothingLost
    LockIsActive
CHECK_DEADLOCK FALSE
