CONSTANTS
    MaxCoros = 3
    MaxSteps = 2
SPECIFICATION FairSpec
INVARIANTS
    QueueExact
    CountExact
PROPERTIES
    NoOvertaking
    ReadyRuns
    RunReturns
