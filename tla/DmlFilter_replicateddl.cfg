CONSTANTS
    MaxStatements = 1
    MaxToggles = 0
SPECIFICATION Spec
INVARIANT NoRowDmlInReplicateDdl
