CONSTANTS
    MaxRuns <- MCMaxRuns
SPECIFICATION Spec
\* After the last run the operator stops: the system may halt.
CHECK_DEADLOCK FALSE
INVARIANT
    CleanExitMeansApplied
