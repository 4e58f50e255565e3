\* An interval column next to a timestamp column.
CONSTANTS
    ColTypes = {"timestamp", "interval"}
    MaxStarts = 1
SPECIFICATION Spec
INVARIANTS
    DatumsDecodable
