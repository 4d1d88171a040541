CONSTANTS
    Timestamps <- MCTimestamps
    IntegerMax = 1
    TimestampMax = 3
SPECIFICATION Spec
INVARIANTS
    ExitMatchesRow
    RecordedRowValid
