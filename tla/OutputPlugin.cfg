CONSTANTS
    MaxTxns = 2
    MaxItems = 2
SPECIFICATION Spec
INVARIANTS
    WellFramed
    
