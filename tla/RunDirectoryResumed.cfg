SPECIFICATION Spec
CONSTANTS
    MaxRuns = 2
    MaxSteps = 1
INVARIANT ResumedJournalReads
