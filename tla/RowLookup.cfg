\* find_pkey_tuple against three local writer transactions.
CONSTANTS
    Tx = {t1, t2, t3}
    Boot = Boot
    NoXact = NoXact
    MaxLookups = 2
SPECIFICATION Spec
INVARIANTS
    TypeOK
    ReturnedTupleCommitted
    HeldVersionIsCurrent
PROPERTIES
    LookupCompletes
    ImplementsLookupSpec
