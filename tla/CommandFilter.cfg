\* One backend: two top-level statements, up to three nested invocations,
\* every combination of the session's GUCs and node state.
CONSTANTS
    MaxDepth = 3
    MaxStatements = 2
SPECIFICATION Spec
INVARIANTS
    TypeOK
    NestLevelsMatchStack
    PersistentDDLReplicated
    ReadOnlyNodeRunsNoPersistentDDL
