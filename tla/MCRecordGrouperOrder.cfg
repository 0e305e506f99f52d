CONSTANTS
    Prefixes = {"www", "mail"}
    RecordTypes = {"A", "TXT"}
    Responses = {"r"}
    MaxRecords = 3

SPECIFICATION Spec

INVARIANT
    KeyOrderFirstSeen
