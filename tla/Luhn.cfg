SPECIFICATION Spec
CONSTANTS
    Bytes <- TypedBytes
    MaxLength = 4
INVARIANTS AcceptsLuhn CatchesTypos
CHECK_DEADLOCK FALSE
