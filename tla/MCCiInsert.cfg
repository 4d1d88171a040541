CONSTANTS
    Timestamps <- MCTimestamps
SPECIFICATION Spec
INVARIANT
    InsertExitMatchesRow
