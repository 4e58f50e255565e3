CONSTANTS
    MaxStatements = 2
    MaxToggles = 2
SPECIFICATION Spec
INVARIANTS
    ReadOnlyNodeWritesOnlyLocal
