\* A concurrent local DELETE between the scan and heap_lock_tuple.
CONSTANTS
    Tx = {t1, t2}
    Boot = Boot
    NoXact = NoXact
    MaxLookups = 1
SPECIFICATION Spec
INVARIANT NoLookupError
