\* Column types other than interval; see OutputProtocol_interval.cfg.
CONSTANTS
    ColTypes = {"int4", "text", "timestamp", "int4array", "composite", "userbase"}
    MaxStarts = 3
SPECIFICATION Spec
INVARIANTS
    DatumsDecodable
