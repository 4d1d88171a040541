CONSTANTS
    Timestamps <- MCTimestamps
SPECIFICATION Spec
INVARIANT
    RecordedBuildTimeNonNegative
