SPECIFICATION Spec
CONSTANTS
    Size <- Sizes
    MAX_TRACE = 12000
INVARIANTS
    SubmissionGetsFullScore
PROPERTIES
    KeepsWhatIsRight
CHECK_DEADLOCK FALSE
