SPECIFICATION Spec
CONSTANTS
    MaxRuns = 2
    MaxSteps = 2
INVARIANTS
    ReadingIsTheFile
    InterruptedJournalReads
    StepsAreTold
    OutcomeIsTrue
PROPERTY StopReturns
